---- MODULE Spec2Model ----
(***************************************************************************)
(* A model of the capture -> stage -> dispatch -> extract pipeline of      *)
(* honest0: the Staging Buffer (core/capture/memory_box.py), the           *)
(* dispatcher (core/dispatch/llm_dispatcher.py), the stream reply          *)
(* extractor (interface/overlay.py) and the recorder with its command      *)
(* layer (core/capture/audio_recorder.py, interface/command_mode.py).      *)
(*                                                                         *)
(* Each component has its own specification over the shared variables:     *)
(*   SpecMB       the Staging Buffer under concurrent callers              *)
(*   SpecDispatch LLMDispatcher.send_bundle on the worker pool             *)
(*   SpecOverlay  the stream handlers of MinimalOverlayGUI                 *)
(*   SpecRec      AudioRecorder and CommandMode                            *)
(***************************************************************************)
EXTENDS Integers, Sequences, FiniteSets, TLC

VARIABLES
  \* ---- MemoryBox (memory_box.py) ----
  mb_audio,      \* self._audio: 0 is None, otherwise the id of the blob
  mb_images,     \* self._images: sequence of image ids
  mb_max,        \* self._max_images
  mb_lock,       \* self._lock: 0 when free, otherwise the holding thread
  mb_pc,         \* per caller thread: where it is inside a MemoryBox method
  mb_local,      \* per caller thread: the locals audio, images of pop_bundle
  mb_ret,        \* what the last completed call returned, and to whom
  \* history variables of the MemoryBox
  mb_nextId,     \* next fresh id for a blob or an image
  mb_lin,        \* the contents as changed at one instant per call
  mb_added,      \* images appended since the list was last emptied
  mb_lastMut,    \* the last call that changed the contents
  mb_popped,     \* ids already returned by some pop_bundle
  mb_held,       \* one returned bundle that its caller still holds, as it is now
  \* ---- LLMDispatcher.send_bundle on the pool's workers (llm_dispatcher.py) ----
  gui_listener,  \* self.gui_listener is set (FALSE: it is None, headless)
  ds_pc,         \* per worker: where it is inside send_bundle
  ds_rid,        \* per worker: request_id of the call in progress
  ds_bundle,     \* per worker: "data", or "empty" (neither audio nor images)
  ds_full,       \* per worker: full_response, the chunks concatenated
  ds_exc,        \* per worker: the exception in flight, "none" if none
  ds_nextRid,    \* next fresh request id (uuid4)
  ds_out,        \* request id -> how send_bundle ended and what it returned
  ds_empties,    \* empty bundles handed to _dispatch_bundle_to_llm_thread
  sink,          \* request id -> the events with that id handed to
                 \* gui_listener.update, in call order
  \* ---- MinimalOverlayGUI, the stream handlers (overlay.py) ----
  max_full_buffer_size,        \* overlay configuration
  show_raw_on_missing_marker,  \* overlay configuration
  reply_counter,
  accepting_reply_stream,
  reply_seen,
  full_buffer,          \* text: a sequence of one-character strings
  last_n_chars_buffer,
  stream_active_lock,
  prune_schedule_id,    \* TRUE while a prune timer is pending (None: FALSE)
  is_typing,
  main_text,            \* the Text widget: state, body and footer
  \* the streams arriving at the overlay
  ov_script,     \* stream -> the chunks its backend yields
  ov_pos,        \* stream -> chunks handled so far
  ov_rq,         \* stream -> "new", "streaming" or "ended"
  ov_sent,       \* stream -> events its send_bundle has passed to update
  ov_idle,       \* the callbacks update queued with root.after_idle and
                 \* the main loop has not run yet, oldest first
  \* history variables of the overlay
  ov_owner,      \* the stream whose STREAM_START opened the session
  ov_src,        \* the streams whose chunks were appended to full_buffer
  ov_all,        \* everything appended to full_buffer since it was reset
  ov_enter,      \* times accepting_reply_stream went from False to True
  ov_fwd,        \* the text passed to main_text.insert while streaming
  ov_fin,        \* the last STREAM_END handled: whose session, whose event,
                 \* and whether the handler raised
  ov_applied,    \* stream -> the chunk events _handle_stream_chunk has run for
  \* ---- AudioRecorder (audio_recorder.py), CommandMode (command_mode.py) ----
  is_recording,
  state,                     \* "idle", "recording" or "paused"
  audio_data,                \* the buffered frames
  lock,                      \* AudioRecorder.lock: 0 or the holding thread
  anti_backchannel_enabled,
  backchannel_duration_threshold,  \* the setting, counted in frames
  llm_interaction_allowed,
  active,                    \* CommandMode.active
  vad_enabled,
  vad,                       \* self.vad: "Vad" or "None"
  auto_vad_enabled,
  _vad_shutdown_requested,
  _audio_already_saved,
  last_vad_action_time,      \* "zero" (0.0) or "set" (a clock reading)
  concatenated_audio,        \* the local of send_audio
  rc_stk,        \* thread -> its stack of labels, empty when not running
  rc_events,     \* hotkeys pressed, frames captured, speech detected and
                 \* device errors raised so far
  rc_epoch,      \* recordings started so far
  rc_auto,       \* the monitor's last automatic start or stop: "none",
                 \* "fresh" (at most 200 ms ago) or "stale"
  rc_inprog,     \* the threads in stop_auto_vad that found a recording in
                 \* progress at line 287
  rc_cancelled,  \* the recordings that were in progress when
                 \* cancel_recording ran
  rc_monitors,   \* monitor threads started and not yet ended
  rc_refused,    \* start_auto_vad has returned at line 273 with the flag
                 \* down, because of a monitor still alive
  rc_abignored,  \* a toggle_anti_backchannel was ignored (line 458)
  rc_join,       \* what stop_auto_vad last did about the live monitor thread:
                 \* "joined" (line 301), "skipped" (line 305) or "self"
                 \* (join called on the calling thread); "none" before
  \* history variables of the recorder
  rc_blob,       \* MemoryBox audio id -> the frames in that blob
  rc_persisted,  \* the audio files written, in order
  rc_staged,     \* the set_audio calls, in order
  rc_submitted,  \* the bundles submitted to the pool, in order
  rc_nested      \* the pairs <<a, b>> of locks such that some thread took
                 \* lock b while it held lock a

mbVars == <<mb_audio, mb_images, mb_max, mb_lock, mb_pc, mb_local,
            mb_ret, mb_nextId, mb_lin, mb_added, mb_lastMut, mb_popped,
            mb_held>>

dsVars == <<gui_listener, ds_pc, ds_rid, ds_bundle, ds_full, ds_exc,
            ds_nextRid, ds_out, ds_empties, sink>>

ovVars == <<max_full_buffer_size, show_raw_on_missing_marker, reply_counter,
            accepting_reply_stream, reply_seen, full_buffer,
            last_n_chars_buffer, stream_active_lock, prune_schedule_id,
            is_typing, main_text, ov_script, ov_pos, ov_rq, ov_sent, ov_idle,
            ov_owner, ov_src,
            ov_all, ov_enter, ov_fwd, ov_fin, ov_applied>>

rcVars == <<is_recording, state, audio_data, lock, anti_backchannel_enabled,
            backchannel_duration_threshold,
            llm_interaction_allowed, active, vad_enabled, vad,
            auto_vad_enabled, _vad_shutdown_requested, _audio_already_saved,
            last_vad_action_time, concatenated_audio, rc_stk, rc_events,
            rc_epoch, rc_auto, rc_inprog, rc_cancelled,
            rc_monitors, rc_refused, rc_abignored, rc_join, rc_blob,
            rc_persisted,
            rc_staged, rc_submitted, rc_nested>>

vars == <<mbVars, dsVars, ovVars, rcVars>>

(***************************************************************************)
(* Bounds of the model.                                                    *)
(***************************************************************************)
NCallers == 2        \* threads calling into the MemoryBox
MaxItems == 5        \* blobs and images created in one behaviour
MaxImagesCap == 3    \* max_images ranges over 0..MaxImagesCap
NWorkers == 2        \* pool workers running send_bundle at the same time
MaxRequests == 2    \* send_bundle calls in one behaviour
MaxYield == 2        \* chunks the backend yields for one request
MaxStreams == 2      \* streams that reach the overlay in one behaviour
SmallCap == 4        \* a max_full_buffer_size shorter than the chunks
MaxQueued == 2       \* callbacks waiting in the idle queue at one time
MaxEvents == 5       \* hotkeys pressed, frames captured, speech detected and
                     \* device errors raised in one behaviour
ThresholdFrames == 2 \* the largest backchannel_duration_threshold, in frames
FairEvents == 4      \* the events of a behaviour of SpecRecFair
ManualEvents == 7    \* the events of a behaviour of SpecRecManual
\* every recording but the first is started by one of the events that
\* follow the hotkey that switches command mode on
MaxRecordings == MaxEvents - 1

Callers == 1..NCallers
None == 0

(***************************************************************************)
(* Sequence helpers.                                                       *)
(***************************************************************************)
Range(s) == {s[i] : i \in 1..Len(s)}

\* the last n elements of s (all of s when it is shorter)
Last(s, n) == IF Len(s) <= n THEN s ELSE SubSeq(s, Len(s) - n + 1, Len(s))

(***************************************************************************)
(* MemoryBox                                                               *)
(***************************************************************************)
EmptyBundle == [audio |-> None, images |-> <<>>]
NoRet == [op |-> "none"]
NoLocal == [audio |-> None, images |-> <<>>, was |-> EmptyBundle]
NoBundle == [audio |-> None, images |-> <<>>, shared |-> FALSE,
             asReturned |-> EmptyBundle]

\* `with self._lock:` entered without waiting for the holder
LockIgnored == TRUE
\* `with self._lock:` can be entered only while no thread holds the lock
LockFree == mb_lock = 0

\* add_image, lines 49-53, with the capacity test off by one
AddImageOffByOne(imgs, img) ==
  IF Len(imgs) > mb_max
  THEN IF imgs = <<>> THEN imgs ELSE Append(Tail(imgs), img)
  ELSE Append(imgs, img)
\* add_image, lines 49-53: at capacity the oldest image is popped, then the
\* new one appended; pop(0) on an empty list raises IndexError and the
\* append is not reached
AddImageBody(imgs, img) ==
  IF Len(imgs) >= mb_max
  THEN IF imgs = <<>> THEN imgs ELSE Append(Tail(imgs), img)
  ELSE Append(imgs, img)

\* a get_bundle that hands out self._images itself
SameList == TRUE
\* lines 66 and 77: list(self._images) is a new list object
ListShared == FALSE

\* the bundle a method returns, as its caller holds it
Returned(audio, images) ==
  [audio |-> audio, images |-> images, shared |-> ListShared,
   asReturned |-> [audio |-> audio, images |-> images]]

\* self._images is changed in place (append, pop(0), clear()): a list that
\* is the same object changes with it
InPlace(held, imgs) ==
  IF held.shared THEN [held EXCEPT !.images = imgs] ELSE held

\* self._images is bound to a new list: a list handed out earlier is no
\* longer the one the MemoryBox uses
Rebound(held) == [held EXCEPT !.shared = FALSE]

MBFields(maxImages) ==
  /\ mb_audio = None
  /\ mb_images = <<>>
  /\ mb_max = maxImages
  /\ mb_lock = 0
  /\ mb_pc = [t \in Callers |-> "idle"]
  /\ mb_local = [t \in Callers |-> NoLocal]
  /\ mb_ret = NoRet
  /\ mb_nextId = 1
  /\ mb_lin = EmptyBundle
  /\ mb_added = <<>>
  /\ mb_lastMut = "none"
  /\ mb_popped = {}
  /\ mb_held = NoBundle

\* settings.get("max_images_stored", 3), line 23
DefaultMaxImages == 3

MBInit == \E m \in 0..MaxImagesCap : MBFields(m)

\* the MemoryBox methods touch nothing outside the MemoryBox
MBFrame == UNCHANGED <<dsVars, ovVars, rcVars>>

\* a caller outside every method reaches a `with self._lock:` line
Enter(t) == mb_pc[t] = "idle" /\ LockFree

\* set_audio, lines 33-35
set_audio(t) ==
  /\ MBFrame
  /\ Enter(t)
  /\ mb_nextId <= MaxItems
  /\ mb_audio' = mb_nextId
  /\ mb_nextId' = mb_nextId + 1
  /\ mb_lin' = [mb_lin EXCEPT !.audio = mb_nextId]
  /\ mb_lastMut' = "set_audio"
  /\ mb_ret' = ([op |-> "set_audio"])
  /\ UNCHANGED <<mb_images, mb_max, mb_lock, mb_pc, mb_local, mb_added,
                 mb_popped, mb_held>>

\* add_image, lines 45-54; valid = FALSE is an argument that is no Image
add_image(t, valid) ==
  /\ MBFrame
  /\ Enter(t)
  /\ mb_nextId <= MaxItems
  /\ IF valid
     THEN /\ mb_nextId' = mb_nextId + 1
          /\ mb_images' = AddImageBody(mb_images, mb_nextId)
          /\ mb_added' = Append(mb_added, mb_nextId)
          /\ mb_lin' = [mb_lin EXCEPT
                          !.images = Last(Append(@, mb_nextId), mb_max)]
          /\ mb_lastMut' = "add_image"
          /\ mb_held' = InPlace(mb_held, AddImageBody(mb_images, mb_nextId))
     ELSE UNCHANGED <<mb_nextId, mb_images, mb_added, mb_lin, mb_lastMut,
                      mb_held>>
  /\ mb_ret' = [op |-> "add_image", valid |-> valid]
  /\ UNCHANGED <<mb_audio, mb_max, mb_lock, mb_pc, mb_local, mb_popped>>

\* get_bundle, lines 64-66: returns the audio and a copy of the list
get_bundle(t) ==
  /\ MBFrame
  /\ Enter(t)
  /\ mb_ret' = ([op |-> "get_bundle", audio |-> mb_audio,
                   images |-> mb_images, lin |-> mb_lin, last |-> mb_lastMut])
  /\ mb_held' \in {mb_held, Returned(mb_audio, mb_images)}
  /\ UNCHANGED <<mb_audio, mb_images, mb_max, mb_lock, mb_pc, mb_local,
                 mb_nextId, mb_lin, mb_added, mb_lastMut, mb_popped>>

\* pop_bundle, lines 76-77: the lock is taken and both fields are read
pop_bundle_read(t) ==
  /\ MBFrame
  /\ Enter(t)
  /\ mb_lock' = t
  /\ mb_pc' = [mb_pc EXCEPT ![t] = "pop_clear"]
  /\ mb_local' = [mb_local EXCEPT
                    ![t] = [audio |-> mb_audio, images |-> mb_images,
                            was |-> mb_lin]]
  /\ mb_lin' = EmptyBundle
  /\ mb_ret' = NoRet
  /\ UNCHANGED <<mb_audio, mb_images, mb_max, mb_nextId, mb_added,
                 mb_lastMut, mb_popped, mb_held>>

\* pop_bundle, line 78, the store to self._audio
pop_bundle_clear(t) ==
  /\ MBFrame
  /\ mb_pc[t] = "pop_clear"
  /\ mb_audio' = None
  /\ mb_pc' = [mb_pc EXCEPT ![t] = "pop_return"]
  /\ UNCHANGED <<mb_images, mb_max, mb_lock, mb_local, mb_ret, mb_nextId,
                 mb_lin, mb_added, mb_lastMut, mb_popped, mb_held>>

\* pop_bundle with the image list left as it was
PopImagesKept(imgs) == imgs
\* pop_bundle, line 78, the store to self._images
PopImages(imgs) == <<>>

\* pop_bundle, lines 78-80: the store to self._images, the lock released,
\* the locals returned
pop_bundle(t) ==
  /\ MBFrame
  /\ mb_pc[t] = "pop_return"
  /\ mb_images' = PopImages(mb_images)
  /\ mb_added' = <<>>
  /\ mb_lastMut' = "pop_bundle"
  /\ mb_lock' = 0
  /\ mb_pc' = [mb_pc EXCEPT ![t] = "idle"]
  /\ LET ids == ({mb_local[t].audio} \ {None}) \cup Range(mb_local[t].images)
     IN  /\ mb_ret' = ([op |-> "pop_bundle", audio |-> mb_local[t].audio,
                          images |-> mb_local[t].images,
                          was |-> mb_local[t].was,
                          dup |-> (ids \cap mb_popped # {})])
         /\ mb_popped' = mb_popped \cup ids
  /\ mb_held' \in {Rebound(mb_held),
                   Rebound(Returned(mb_local[t].audio, mb_local[t].images))}
  /\ mb_local' = [mb_local EXCEPT ![t] = NoLocal]
  /\ UNCHANGED <<mb_audio, mb_max, mb_nextId, mb_lin>>

\* clear, lines 86-87: the lock is taken and the audio dropped
clear_audio(t) ==
  /\ MBFrame
  /\ Enter(t)
  /\ mb_lock' = t
  /\ mb_pc' = [mb_pc EXCEPT ![t] = "clear_images"]
  /\ mb_audio' = None
  /\ mb_lin' = EmptyBundle
  /\ mb_ret' = NoRet
  /\ UNCHANGED <<mb_images, mb_max, mb_local, mb_nextId, mb_added,
                 mb_lastMut, mb_popped, mb_held>>

\* clear, lines 88-90: the list is emptied in place, the lock released
clear(t) ==
  /\ MBFrame
  /\ mb_pc[t] = "clear_images"
  /\ mb_images' = <<>>
  /\ mb_added' = <<>>
  /\ mb_lastMut' = "clear"
  /\ mb_lock' = 0
  /\ mb_pc' = [mb_pc EXCEPT ![t] = "idle"]
  /\ mb_ret' = ([op |-> "clear"])
  /\ mb_held' = InPlace(mb_held, <<>>)
  /\ UNCHANGED <<mb_audio, mb_max, mb_local, mb_nextId, mb_lin, mb_popped>>

\* what the four predicates answer on a bundle
IsEmptyOf(b) == b.audio = None /\ b.images = <<>>
HasAudioOf(b) == b.audio # None
HasImageOf(b) == b.images # <<>>
HasDataOf(b) == b.audio # None \/ b.images # <<>>

Predicate(t, name, val, linval) ==
  /\ MBFrame
  /\ Enter(t)
  /\ mb_ret' = ([op |-> name, val |-> val, linval |-> linval,
                   last |-> mb_lastMut])
  /\ UNCHANGED <<mb_audio, mb_images, mb_max, mb_lock, mb_pc, mb_local,
                 mb_nextId, mb_lin, mb_added, mb_lastMut, mb_popped,
                 mb_held>>

Staged == [audio |-> mb_audio, images |-> mb_images]

\* is_empty, lines 99-100
is_empty(t) == Predicate(t, "is_empty", IsEmptyOf(Staged), IsEmptyOf(mb_lin))
\* has_audio, lines 109-110
has_audio(t) == Predicate(t, "has_audio", HasAudioOf(Staged), HasAudioOf(mb_lin))
\* has_image, lines 119-120
has_image(t) == Predicate(t, "has_image", HasImageOf(Staged), HasImageOf(mb_lin))
\* has_data, lines 129-130
has_data(t) == Predicate(t, "has_data", HasDataOf(Staged), HasDataOf(mb_lin))

MBNext ==
  \E t \in Callers :
    \/ set_audio(t)
    \/ \E valid \in BOOLEAN : add_image(t, valid)
    \/ get_bundle(t)
    \/ pop_bundle_read(t)
    \/ pop_bundle_clear(t)
    \/ pop_bundle(t)
    \/ clear_audio(t)
    \/ clear(t)
    \/ is_empty(t)
    \/ has_audio(t)
    \/ has_image(t)
    \/ has_data(t)


(***************************************************************************)
(* LLMDispatcher.send_bundle                                               *)
(***************************************************************************)
Workers == 1..NWorkers
Requests == 1..MaxRequests

DSInit ==
  /\ gui_listener \in BOOLEAN
  /\ ds_pc = [w \in Workers |-> "idle"]
  /\ ds_rid = [w \in Workers |-> 0]
  /\ ds_bundle = [w \in Workers |-> "data"]
  /\ ds_full = [w \in Workers |-> <<>>]
  /\ ds_exc = [w \in Workers |-> "none"]
  /\ ds_nextRid = 1
  /\ ds_empties = 0
  /\ ds_out = [r \in Requests |->
                 [status |-> "none", value |-> <<>>, backend |-> "ok"]]
  /\ sink = [r \in Requests |-> <<>>]

\* send_bundle touches neither the MemoryBox nor the recorder
DSFrame == UNCHANGED <<mbVars, ovVars, rcVars>>

\* gui_listener.update(kind, {"text": text, "request_id": rid}) behind
\* `if self.gui_listener:` (lines 48, 59, 63, 66)
Emit(q, kind, rid, text) ==
  IF gui_listener
  THEN [q EXCEPT ![rid] = Append(@, [kind |-> kind, rid |-> rid, text |-> text])]
  ELSE q

\* send_bundle, lines 46-52: the request id is generated, STREAM_START sent
send_bundle_start(w, bundle) ==
  /\ DSFrame
  /\ ds_pc[w] = "idle"
  /\ ds_nextRid <= MaxRequests
  /\ ds_rid' = [ds_rid EXCEPT ![w] = ds_nextRid]
  /\ ds_nextRid' = ds_nextRid + 1
  /\ ds_bundle' = [ds_bundle EXCEPT ![w] = bundle]
  /\ ds_full' = [ds_full EXCEPT ![w] = <<>>]
  /\ ds_exc' = [ds_exc EXCEPT ![w] = "none"]
  /\ sink' = Emit(sink, "STREAM_START", ds_nextRid, <<>>)
  /\ ds_out' = [ds_out EXCEPT ![ds_nextRid] =
                  [status |-> "running", value |-> <<>>, backend |-> "ok"]]
  /\ ds_pc' = [ds_pc EXCEPT ![w] = "stream"]
  /\ UNCHANGED gui_listener

\* a loop that keeps only the chunk it received last
LastOnly(full_response, chunk) == <<chunk>>
\* line 58: `full_response += chunk`
Accumulated(full_response, chunk) == Append(full_response, chunk)

\* lines 55-60: the backend yields its next chunk; it is appended to
\* full_response and forwarded as STREAM_CHUNK
send_bundle_chunk(w) ==
  /\ DSFrame
  /\ ds_pc[w] = "stream"
  /\ ds_bundle[w] = "data"
  /\ Len(ds_full[w]) < MaxYield
  /\ LET chunk == <<ds_rid[w], Len(ds_full[w]) + 1>>
     IN  /\ ds_full' = [ds_full EXCEPT ![w] = Accumulated(@, chunk)]
         /\ sink' = Emit(sink, "STREAM_CHUNK", ds_rid[w], chunk)
  /\ UNCHANGED <<gui_listener, ds_pc, ds_rid, ds_bundle, ds_exc, ds_nextRid,
                 ds_out, ds_empties>>

\* line 55: the generator is exhausted, the loop ends
send_bundle_exhausted(w) ==
  /\ DSFrame
  /\ ds_pc[w] = "stream"
  /\ ds_bundle[w] = "data"
  /\ ds_pc' = [ds_pc EXCEPT ![w] = "finally"]
  /\ UNCHANGED <<gui_listener, ds_rid, ds_bundle, ds_full, ds_exc,
                 ds_nextRid, ds_out, ds_empties, sink>>

\* lines 54-55: the backend raises, before the first chunk or after some
\* (gemini_api.py raises ValueError for an empty bundle and re-raises every
\* API error); kind "Exception" is caught by line 61, any other
\* BaseException only passes through the finally block
send_bundle_raise(w, kind) ==
  /\ DSFrame
  /\ ds_pc[w] = "stream"
  /\ ds_bundle[w] = "empty" => (kind = "Exception" /\ ds_full[w] = <<>>)
  /\ ds_exc' = [ds_exc EXCEPT ![w] = kind]
  /\ ds_pc' = [ds_pc EXCEPT ![w] = IF kind = "Exception" THEN "except"
                                    ELSE "finally"]
  /\ ds_out' = [ds_out EXCEPT ![ds_rid[w]].backend = kind]
  /\ UNCHANGED <<gui_listener, ds_rid, ds_bundle, ds_full, ds_nextRid,
                 ds_empties, sink>>

\* lines 61-64: the error is logged and forwarded as one more STREAM_CHUNK
send_bundle_except(w) ==
  /\ DSFrame
  /\ ds_pc[w] = "except"
  /\ sink' = Emit(sink, "STREAM_CHUNK", ds_rid[w], <<"Error">>)
  /\ ds_exc' = [ds_exc EXCEPT ![w] = "none"]
  /\ ds_pc' = [ds_pc EXCEPT ![w] = "finally"]
  /\ UNCHANGED <<gui_listener, ds_rid, ds_bundle, ds_full, ds_nextRid,
                 ds_out, ds_empties>>

\* a finally block that does not return: an exception in flight goes on to
\* the caller
FinallyPropagates(pending) == IF pending = "none" THEN "returned" ELSE "raised"
\* line 69: `return full_response` inside the finally block discards an
\* exception in flight
FinallyOutcome(pending) == "returned"

\* lines 65-69: STREAM_END is sent and full_response returned
send_bundle(w) ==
  /\ DSFrame
  /\ ds_pc[w] = "finally"
  /\ sink' = Emit(sink, "STREAM_END", ds_rid[w], <<>>)
  /\ ds_out' = [ds_out EXCEPT ![ds_rid[w]] =
                  [@ EXCEPT !.status = FinallyOutcome(ds_exc[w]),
                            !.value = ds_full[w]]]
  /\ ds_exc' = [ds_exc EXCEPT ![w] = "none"]
  /\ ds_pc' = [ds_pc EXCEPT ![w] = "idle"]
  /\ UNCHANGED <<gui_listener, ds_rid, ds_bundle, ds_full, ds_nextRid,
                 ds_empties>>

\* a wrapper that hands every bundle on
NeverEmpty(bundle) == FALSE
\* audio_recorder.py line 434: `if not audio and not images`
IsEmptyBundle(bundle) == bundle = "empty"

\* AudioRecorder._dispatch_bundle_to_llm_thread, audio_recorder.py lines
\* 424-446, run by a pool worker for every bundle submitted (line 255,
\* command_mode.py line 400): an empty bundle is logged and dropped, any
\* other goes to send_bundle (line 439; clear_memory_box is False in every
\* call)
_dispatch_bundle_to_llm_thread(w, bundle) ==
  /\ ds_pc[w] = "idle"
  /\ ds_empties + ds_nextRid <= MaxRequests
  /\ ds_empties' = IF bundle = "empty" THEN ds_empties + 1 ELSE ds_empties
  /\ IF IsEmptyBundle(bundle)
     THEN /\ DSFrame
          /\ UNCHANGED <<gui_listener, ds_pc, ds_rid, ds_bundle, ds_full,
                         ds_exc, ds_nextRid, ds_out, sink>>
     ELSE send_bundle_start(w, bundle)

DSNext ==
  \E w \in Workers :
    \/ \E bundle \in {"data", "empty"} :
         _dispatch_bundle_to_llm_thread(w, bundle)
    \/ send_bundle_chunk(w)
    \/ send_bundle_exhausted(w)
    \/ \E kind \in {"Exception", "BaseException"} : send_bundle_raise(w, kind)
    \/ send_bundle_except(w)
    \/ send_bundle(w)

(***************************************************************************)
(* Text.  A Python str is a sequence of one-character strings.             *)
(***************************************************************************)
UpperCase == <<"A", "B", "C", "D", "E", "F", "G", "H", "I", "J", "K", "L", "M",
               "N", "O", "P", "Q", "R", "S", "T", "U", "V", "W", "X", "Y", "Z">>
LowerCase == <<"a", "b", "c", "d", "e", "f", "g", "h", "i", "j", "k", "l", "m",
               "n", "o", "p", "q", "r", "s", "t", "u", "v", "w", "x", "y", "z">>
Digits == {"0", "1", "2", "3", "4", "5", "6", "7", "8", "9"}
\* \s of the re module, and what str.strip() removes
Whitespace == {" ", "\n", "\t", "\r"}
Stars == <<"*", "*">>

SetMin(S) == CHOOSE x \in S : \A y \in S : x <= y
SetMax(S) == CHOOSE x \in S : \A y \in S : x >= y

\* str.lower() on one character
Lower(c) ==
  IF \E i \in 1..26 : UpperCase[i] = c
  THEN LowerCase[CHOOSE i \in 1..26 : UpperCase[i] = c]
  ELSE c
\* str.lower()
LowerStr(s) == [i \in 1..Len(s) |-> Lower(s[i])]

\* `sub in s`
Contains(s, sub) ==
  \E i \in 0..(Len(s) - Len(sub)) : SubSeq(s, i + 1, i + Len(sub)) = sub

\* s[-n:] for n >= 0: the last n characters, all of s when it is shorter,
\* and all of s for n = 0, because -0 is 0 and s[0:] is s
PySliceLast(s, n) ==
  IF n = 0 \/ n >= Len(s) THEN s ELSE SubSeq(s, Len(s) - n + 1, Len(s))

\* s.strip(cs)
StripSet(s, cs) ==
  LET keep == {i \in 1..Len(s) : s[i] \notin cs}
  IN  IF keep = {} THEN <<>> ELSE SubSeq(s, SetMin(keep), SetMax(keep))
\* s.strip()
Strip(s) == StripSet(s, Whitespace)

\* s.startswith(sub, i - 1)
StartsAt(s, i, sub) ==
  /\ i >= 1
  /\ i + Len(sub) - 1 <= Len(s)
  /\ SubSeq(s, i, i + Len(sub) - 1) = sub

\* the first index from i on whose character is not in cs, Len(s) + 1 if
\* there is none: where a greedy run of cs that starts at i ends
SkipChars(s, i, cs) ==
  CHOOSE j \in i..(Len(s) + 1) :
    /\ \A k \in i..(j - 1) : s[k] \in cs
    /\ j = Len(s) + 1 \/ s[j] \notin cs

\* ^ under re.MULTILINE: at the start of the text and after every newline
LineStart(s, i) == i = 1 \/ s[i - 1] = "\n"

\* [A-Z0-9\- ] under re.IGNORECASE
SectionClass ==
  {UpperCase[i] : i \in 1..26} \cup {LowerCase[i] : i \in 1..26}
    \cup Digits \cup {"-", " "}

\* r'(?im)^\*\*[A-Z0-9\- ]+\*\*' matched at index i: the index after the
\* match, 0 if it does not match there
SectionMatchAt(s, i) ==
  IF LineStart(s, i) /\ StartsAt(s, i, Stars)
  THEN LET j == SkipChars(s, i + 2, SectionClass)
       IN  IF j > i + 2 /\ StartsAt(s, j, Stars) THEN j + 2 ELSE 0
  ELSE 0

\* re.search of the section pattern: the index where the leftmost match
\* starts, 0 for None
SectionSearch(s) ==
  LET hits == {i \in 1..Len(s) : SectionMatchAt(s, i) # 0}
  IN  IF hits = {} THEN 0 ELSE SetMin(hits)

\* textwrap.dedent: lines of blanks and tabs only become empty, then the
\* longest run of leading blanks and tabs common to the other non-empty
\* lines is removed from each of them
RECURSIVE SplitLines(_)
SplitLines(s) ==
  IF \A i \in 1..Len(s) : s[i] # "\n"
  THEN <<s>>
  ELSE LET k == SetMin({i \in 1..Len(s) : s[i] = "\n"})
       IN  <<SubSeq(s, 1, k - 1)>> \o SplitLines(SubSeq(s, k + 1, Len(s)))

RECURSIVE JoinLines(_)
JoinLines(ls) ==
  IF Len(ls) = 1 THEN ls[1]
  ELSE ls[1] \o <<"\n">> \o JoinLines(Tail(ls))

dedent(s) ==
  LET raw == SplitLines(s)
      ls == [i \in 1..Len(raw) |->
               IF \A k \in 1..Len(raw[i]) : raw[i][k] \in {" ", "\t"}
               THEN <<>> ELSE raw[i]]
      full == {i \in 1..Len(ls) : ls[i] # <<>>}
      indent(i) == SkipChars(ls[i], 1, {" ", "\t"}) - 1
      common == {n \in 0..(IF full = {} THEN 0
                           ELSE SetMin({indent(i) : i \in full})) :
                   \A i, j \in full : SubSeq(ls[i], 1, n) = SubSeq(ls[j], 1, n)}
      margin == SetMax(common)
  IN  JoinLines([i \in 1..Len(ls) |->
                   IF ls[i] = <<>> THEN <<>>
                   ELSE SubSeq(ls[i], margin + 1, Len(ls[i]))])

(***************************************************************************)
(* MinimalOverlayGUI: the stream handlers                                  *)
(***************************************************************************)
\* overlay_config.get("max_full_buffer_size", 50 * 1024), line 122
DefaultBufferSize == 51200
\* text_chunk[-50:], lines 687, 694, 702, 709
WindowSize == 50
\* overlay_config.get("max_text_lines", 500), line 119
max_text_lines == 500
\* overlay_config.get("prune_interval_chars", 1000), line 120
prune_interval_chars == 1000

\* overlay_config.get("reply_markers", ["**REPLY**", "**ANSWER**"]), line 123
reply_markers_list ==
  << <<"*", "*", "R", "E", "P", "L", "Y", "*", "*">>,
     <<"*", "*", "A", "N", "S", "W", "E", "R", "*", "*">> >>

\* line 136: [re.escape(m.strip("* ")) for m in self.reply_markers_list]
reply_patterns ==
  [k \in 1..Len(reply_markers_list) |->
     StripSet(reply_markers_list[k], {"*", " "})]

\* line 137, r'(?im)^\*\*\s*(?:' + name + r')\s*\*\*' matched at index i for
\* one alternative: the index after the match, 0 if it does not match
ReplyNameAt(s, i, name) ==
  IF LineStart(s, i) /\ StartsAt(s, i, Stars)
  THEN LET b == SkipChars(s, i + 2, Whitespace)
       IN  IF StartsAt(LowerStr(s), b, LowerStr(name))
           THEN LET d == SkipChars(s, b + Len(name), Whitespace)
                IN  IF StartsAt(s, d, Stars) THEN d + 2 ELSE 0
           ELSE 0
  ELSE 0

\* the alternatives are tried in the order of the list
ReplyMatchAt(s, i) ==
  LET ks == {k \in 1..Len(reply_patterns) :
               ReplyNameAt(s, i, reply_patterns[k]) # 0}
  IN  IF ks = {} THEN 0
      ELSE ReplyNameAt(s, i, reply_patterns[SetMin(ks)])

\* self.re_reply_marker.search(s): where the leftmost match starts, 0 for
\* None
re_reply_marker(s) ==
  LET hits == {i \in 1..Len(s) : ReplyMatchAt(s, i) # 0}
  IN  IF hits = {} THEN 0 ELSE SetMin(hits)

\* lines 680-681: any(m.lower() in combined_text for m in reply_markers_list)
MarkerIn(combined_text) ==
  \E k \in 1..Len(reply_markers_list) :
    Contains(combined_text, LowerStr(reply_markers_list[k]))

\* The Text widget.  insert and delete do nothing while its state is
\* "disabled".  "stream_start" is set at 1.0 of the emptied widget and keeps
\* to the right of what is inserted at it, so inserts at it append.
TextDelete(w) ==
  IF w.state = "normal" THEN [w EXCEPT !.body = <<>>, !.footer = 0] ELSE w
TextInsert(w, text) ==
  IF w.state = "normal" THEN [w EXCEPT !.body = @ \o text] ELSE w
TextInsertFinal(w, text, counter) ==
  IF w.state = "normal"
  THEN [w EXCEPT !.body = text \o @, !.footer = counter]
  ELSE w

\* _prune_text, lines 789-793: only the last max_text_lines lines stay
_prune_text(w) ==
  LET nl == {i \in 1..Len(w.body) : w.body[i] = "\n"}
      lines == Cardinality(nl) + 1
  IN  IF lines > max_text_lines /\ w.state = "normal"
      THEN LET cut == CHOOSE i \in nl :
                        Cardinality({j \in nl : j <= i}) = lines - max_text_lines
           IN  [w EXCEPT !.body = SubSeq(@, cut + 1, Len(@))]
      ELSE w

Streams == 1..MaxStreams

\* __init__, lines 122-152 and 235
OVFields(cap, raw) ==
  /\ max_full_buffer_size = cap
  /\ show_raw_on_missing_marker = raw
  /\ reply_counter = 0
  /\ accepting_reply_stream = FALSE
  /\ reply_seen = FALSE
  /\ full_buffer = <<>>
  /\ last_n_chars_buffer = <<>>
  /\ stream_active_lock = FALSE
  /\ prune_schedule_id = FALSE
  /\ is_typing = FALSE
  /\ main_text = [state |-> "disabled", body |-> <<>>, footer |-> 0]
  /\ ov_pos = [r \in Streams |-> 0]
  /\ ov_sent = [r \in Streams |-> 0]
  /\ ov_idle = <<>>
  /\ ov_owner = 0
  /\ ov_src = {}
  /\ ov_all = <<>>
  /\ ov_enter = 0
  /\ ov_fwd = <<>>
  /\ ov_fin = [owner |-> 0, by |-> 0, raised |-> FALSE]
  /\ ov_applied = [r \in Streams |-> <<>>]

\* the stream handlers touch only the overlay
OVFrame == UNCHANGED <<mbVars, dsVars, rcVars>>

\* the events send_bundle passes to update for stream r, in its order
\* (llm_dispatcher.py lines 49, 60, 67)
EventsOf(r) ==
  <<[kind |-> "STREAM_START", rid |-> r, seq |-> 1, text |-> <<>>]>>
  \o [i \in 1..Len(ov_script[r]) |->
        [kind |-> "STREAM_CHUNK", rid |-> r, seq |-> i + 1,
         text |-> ov_script[r][i]]]
  \o <<[kind |-> "STREAM_END", rid |-> r, seq |-> Len(ov_script[r]) + 2,
        text |-> <<>>]>>

\* a main loop that runs the newest idle callback first
IdleNewest(q) == Len(q)
\* Tk runs idle callbacks in the order after_idle registered them
IdleIndex(q) == 1
IdleNext(q) == q[IdleIndex(q)]
IdleRest(q) == SubSeq(q, 1, IdleIndex(q) - 1)
               \o SubSeq(q, IdleIndex(q) + 1, Len(q))

\* update and _safe, lines 481-550, called by the worker that streams r:
\* the handler of the event is queued with root.after_idle
update(r) ==
  /\ OVFrame
  /\ ov_rq[r] # "absent"
  /\ ov_sent[r] < Len(EventsOf(r))
  /\ Len(ov_idle) < MaxQueued
  /\ ov_sent' = [ov_sent EXCEPT ![r] = @ + 1]
  /\ ov_idle' = Append(ov_idle, EventsOf(r)[ov_sent[r] + 1])
  /\ UNCHANGED <<max_full_buffer_size, show_raw_on_missing_marker,
                 reply_counter, accepting_reply_stream, reply_seen,
                 full_buffer, last_n_chars_buffer, stream_active_lock,
                 prune_schedule_id, is_typing, main_text, ov_script, ov_pos,
                 ov_rq, ov_owner, ov_src, ov_all, ov_enter, ov_fwd, ov_fin,
                 ov_applied>>

\* the main loop runs the next idle callback: the handler of an event of
\* this kind for stream r
Delivered(kind, r) ==
  /\ ov_idle # <<>>
  /\ IdleNext(ov_idle).kind = kind
  /\ IdleNext(ov_idle).rid = r
  /\ ov_idle' = IdleRest(ov_idle)
  /\ UNCHANGED ov_sent

\* _handle_stream_start, lines 621-661, for the STREAM_START of stream r
_handle_stream_start(r) ==
  /\ OVFrame
  /\ Delivered("STREAM_START", r)
  /\ ov_rq' = [ov_rq EXCEPT ![r] = "streaming"]
  /\ IF stream_active_lock
     THEN UNCHANGED <<stream_active_lock, reply_counter,
                      accepting_reply_stream, reply_seen, full_buffer,
                      last_n_chars_buffer, main_text, is_typing,
                      prune_schedule_id, ov_owner, ov_src, ov_all, ov_enter,
                      ov_fwd>>
     ELSE /\ stream_active_lock' = TRUE
          /\ reply_counter' = reply_counter + 1
          /\ accepting_reply_stream' = FALSE
          /\ reply_seen' = FALSE
          /\ full_buffer' = <<>>
          /\ last_n_chars_buffer' = <<>>
          /\ main_text' = TextDelete([main_text EXCEPT !.state = "normal"])
          /\ is_typing' = TRUE
          /\ prune_schedule_id' = TRUE
          /\ ov_owner' = r
          /\ ov_src' = {}
          /\ ov_all' = <<>>
          /\ ov_enter' = 0
          /\ ov_fwd' = <<>>
  /\ UNCHANGED <<max_full_buffer_size, show_raw_on_missing_marker, ov_script,
                 ov_pos, ov_fin, ov_applied>>

\* a handler that ends the reply at every chunk
LeavesAlways(text_chunk) == TRUE
\* line 699: re.search(r'(?im)^\*\*[A-Z0-9\- ]+\*\*', text_chunk)
LeavesReply(text_chunk) == SectionSearch(text_chunk) # 0

\* a handler that looks for the marker in every chunk
EntersAgain(seen) == TRUE
\* line 679: `if not self.reply_seen:`
MayEnter(seen) == ~seen

\* _handle_stream_chunk, lines 663-714, for the next STREAM_CHUNK of stream r
_handle_stream_chunk(r) ==
  /\ OVFrame
  /\ Delivered("STREAM_CHUNK", r)
  /\ ov_pos' = [ov_pos EXCEPT ![r] = @ + 1]
  /\ LET text_chunk == IdleNext(ov_idle).text
         buffer == PySliceLast(full_buffer \o text_chunk, max_full_buffer_size)
         combined_text == last_n_chars_buffer \o LowerStr(text_chunk)
     IN  /\ full_buffer' = buffer
         /\ ov_all' = ov_all \o text_chunk
         /\ ov_src' = ov_src \cup {r}
         /\ last_n_chars_buffer' = PySliceLast(text_chunk, WindowSize)
         /\ IF MayEnter(reply_seen) /\ MarkerIn(combined_text)
            THEN \* lines 681-689
                 /\ reply_seen' = TRUE
                 /\ accepting_reply_stream' = TRUE
                 /\ ov_enter' = IF accepting_reply_stream THEN ov_enter
                                ELSE ov_enter + 1
                 /\ UNCHANGED <<main_text, prune_schedule_id, ov_fwd>>
            ELSE IF ~accepting_reply_stream
            THEN \* lines 692-696
                 UNCHANGED <<reply_seen, accepting_reply_stream, ov_enter,
                             main_text, prune_schedule_id, ov_fwd>>
            ELSE IF LeavesReply(text_chunk)
            THEN \* lines 699-704
                 /\ accepting_reply_stream' = FALSE
                 /\ UNCHANGED <<reply_seen, ov_enter, main_text,
                                prune_schedule_id, ov_fwd>>
            ELSE \* lines 707-714
                 /\ main_text' = TextInsert(main_text, text_chunk)
                 /\ ov_fwd' = ov_fwd \o text_chunk
                 /\ prune_schedule_id' =
                      (prune_schedule_id
                         \/ Len(buffer) % prune_interval_chars < Len(text_chunk))
                 /\ UNCHANGED <<reply_seen, accepting_reply_stream, ov_enter>>
  /\ UNCHANGED <<max_full_buffer_size, show_raw_on_missing_marker,
                 reply_counter, stream_active_lock, is_typing, ov_script,
                 ov_rq, ov_owner, ov_fin>>
  /\ ov_applied' = [ov_applied EXCEPT ![r] =
                      Append(@, [seq |-> IdleNext(ov_idle).seq,
                                 text |-> IdleNext(ov_idle).text])]

\* lines 745-750: the text between the reply marker and the next section
ReplyOnly(s) ==
  LET start == ReplyMatchAt(s, re_reply_marker(s))
      rest == SubSeq(s, start, Len(s))
      next_section == SectionSearch(rest)
  IN  Strip(IF next_section = 0 THEN rest
            ELSE SubSeq(rest, 1, next_section - 1))

\* where the try block of _handle_stream_end ends: "none" (it completes),
\* "after_cancel" (root.after_cancel raises, line 719) or "main_text" (the
\* first call on the text widget raises, line 729, 742 or 768)
EndOutcomes == {"none", "after_cancel", "main_text"}

\* a handler that releases the flag as the last statement of its try block
ReleasedOnSuccess(raised) == raised
\* lines 777-779: the finally block sets stream_active_lock to False
Released(raised) == FALSE

\* _handle_stream_end, lines 716-781, for the STREAM_END of stream r
_handle_stream_end(r, outcome) ==
  /\ OVFrame
  /\ Delivered("STREAM_END", r)
  /\ outcome = "after_cancel" => prune_schedule_id
  /\ ov_rq' = [ov_rq EXCEPT ![r] = "ended"]
  /\ LET seen == reply_seen \/ re_reply_marker(full_buffer) # 0
         normal == [main_text EXCEPT !.state = "normal"]
         shown ==
           IF ~seen /\ show_raw_on_missing_marker
           THEN \* lines 727-739
                TextInsertFinal(TextDelete(normal),
                                Strip(dedent(full_buffer)), reply_counter)
           ELSE IF seen
           THEN IF re_reply_marker(full_buffer) # 0
                THEN \* lines 742-759
                     TextInsertFinal(TextDelete(normal),
                                     Strip(dedent(ReplyOnly(full_buffer))),
                                     reply_counter)
                ELSE \* lines 760-766
                     TextInsertFinal(TextDelete(normal),
                                     Strip(dedent(full_buffer)), reply_counter)
           ELSE \* lines 767-771
                TextDelete(main_text)
     IN  /\ reply_seen' = IF outcome = "after_cancel" THEN reply_seen ELSE seen
         /\ main_text' =
              IF outcome = "none"
              THEN _prune_text([shown EXCEPT !.state = "disabled"])
              ELSE main_text
  /\ prune_schedule_id' = (outcome = "after_cancel")
  \* lines 773-779: the exception is logged and raised again; the finally
  \* block runs on every path
  /\ stream_active_lock' = Released(outcome # "none")
  /\ is_typing' = FALSE
  /\ ov_fin' = [owner |-> ov_owner, by |-> r, raised |-> outcome # "none"]
  /\ UNCHANGED ov_applied
  /\ UNCHANGED <<max_full_buffer_size, show_raw_on_missing_marker,
                 reply_counter, accepting_reply_stream, full_buffer,
                 last_n_chars_buffer, ov_script, ov_pos, ov_owner, ov_src,
                 ov_all, ov_enter, ov_fwd>>

\* _perform_prune_and_redraw, lines 800-803: the prune timer fires
_perform_prune_and_redraw ==
  /\ OVFrame
  /\ prune_schedule_id
  /\ main_text' = _prune_text(main_text)
  /\ prune_schedule_id' = FALSE
  /\ UNCHANGED <<max_full_buffer_size, show_raw_on_missing_marker,
                 reply_counter, accepting_reply_stream, reply_seen,
                 full_buffer, last_n_chars_buffer, stream_active_lock,
                 is_typing, ov_script, ov_pos, ov_rq, ov_sent, ov_idle,
                 ov_owner, ov_src, ov_all, ov_enter, ov_fwd, ov_fin,
                 ov_applied>>

OVNext ==
  \/ \E r \in Streams :
       \/ update(r)
       \/ _handle_stream_start(r)
       \/ _handle_stream_chunk(r)
       \/ \E outcome \in EndOutcomes : _handle_stream_end(r, outcome)
  \/ _perform_prune_and_redraw

(***************************************************************************)
(* The streams the overlay is run on.                                      *)
(***************************************************************************)
\* a marker as the backend emits it, cut after its p-th character
SplitAt(m, p) == <<SubSeq(m, 1, p), SubSeq(m, p + 1, Len(m))>>

SplitScripts ==
  UNION {{SplitAt(reply_markers_list[k], p) :
            p \in 1..(Len(reply_markers_list[k]) - 1)} :
         k \in 1..Len(reply_markers_list)}

\* the marker inside one chunk
WholeScripts == {<<reply_markers_list[k]>> : k \in 1..Len(reply_markers_list)}

\* ["foo ", "**RE", "PLY**\nHello ", "world\n**END**"]
ScenarioC ==
  << <<"f", "o", "o", " ">>,
     <<"*", "*", "R", "E">>,
     <<"P", "L", "Y", "*", "*", "\n", "H", "e", "l", "l", "o", " ">>,
     <<"w", "o", "r", "l", "d", "\n", "*", "*", "E", "N", "D", "*", "*">> >>

\* ["**REPLY**\n", "Hello ", "world\n", "**END**"]
MarkerFirst ==
  << <<"*", "*", "R", "E", "P", "L", "Y", "*", "*", "\n">>,
     <<"H", "e", "l", "l", "o", " ">>,
     <<"w", "o", "r", "l", "d", "\n">>,
     <<"*", "*", "E", "N", "D", "*", "*">> >>

\* ["  hi\n", "  yo"]: no marker at all
Unstructured ==
  << <<" ", " ", "h", "i", "\n">>, <<" ", " ", "y", "o">> >>

\* ["ok **REPLY**\nHi"]: the marker after other text on its line
MidLine ==
  << <<"o", "k", " ", "*", "*", "R", "E", "P", "L", "Y", "*", "*", "\n",
       "H", "i">> >>

\* ["**REPLY**\n", "**ok** yes", " sir"]: bold text opens a line of the reply
BoldInReply ==
  << <<"*", "*", "R", "E", "P", "L", "Y", "*", "*", "\n">>,
     <<"*", "*", "o", "k", "*", "*", " ", "y", "e", "s">>,
     <<" ", "s", "i", "r">> >>

\* ["**REPLY**\n", "a\n", "**END**\n", "**REPLY** b", "c"]: the reply marker
\* comes again after the section that ended the reply
MarkerAgain ==
  << <<"*", "*", "R", "E", "P", "L", "Y", "*", "*", "\n">>,
     <<"a", "\n">>,
     <<"*", "*", "E", "N", "D", "*", "*", "\n">>,
     <<"*", "*", "R", "E", "P", "L", "Y", "*", "*", " ", "b">>,
     <<"c">> >>

Scripts ==
  SplitScripts \cup WholeScripts
    \cup {ScenarioC, MarkerFirst, Unstructured, MidLine, BoldInReply,
          MarkerAgain}

\* what streams that run next to each other carry
OtherScripts ==
  { <<>>,
    << <<"b", "a", "r">> >>,
    << <<"*", "*", "R", "E", "P", "L", "Y", "*", "*">>, <<"b", "a", "r">> >> }

Caps == {0, SmallCap, DefaultBufferSize}

\* one stream with any of the scripts, or all streams with the short ones
\* ("absent": the request is never dispatched)
OVInit ==
  /\ \E cap \in Caps, raw \in BOOLEAN : OVFields(cap, raw)
  /\ ov_script \in [Streams -> Scripts \cup OtherScripts]
  /\ \A r \in Streams \ {1} : ov_script[r] \in OtherScripts
  /\ ov_rq = [r \in Streams |->
                IF r = 1 \/ ov_script[1] \in OtherScripts THEN "new"
                ELSE "absent"]
  /\ \A r \in Streams : ov_rq[r] = "absent" => ov_script[r] = <<>>

(***************************************************************************)
(* AudioRecorder and CommandMode                                           *)
(*                                                                         *)
(* Threads: the hotkey thread that runs the CommandMode callbacks, the     *)
(* Auto-VAD monitor (_auto_vad_loop) and one capture thread (_record) per  *)
(* recording.  Every thread has a stack of labels: its head is the line    *)
(* the thread is at, below it the lines its callers return to.             *)
(***************************************************************************)
Hk == 1
Mon == 2
CapThread(k) == 2 + k
RecThreads == 1..(2 + MaxRecordings)

At(t, l) == rc_stk[t] # <<>> /\ Head(rc_stk[t]) = l
Goto(t, l) == rc_stk' = [rc_stk EXCEPT ![t] = <<l>> \o Tail(@)]
Call(t, f, ret) == rc_stk' = [rc_stk EXCEPT ![t] = <<f, ret>> \o Tail(@)]
Return(t) == rc_stk' = [rc_stk EXCEPT ![t] = Tail(@)]

\* an exception leaves the function: in the hotkey thread safe_callback
\* logs it (command_mode.py 179-183), in the monitor the handler of line 381
\* calls stop_auto_vad and the outer loop goes on
Raise(t) ==
  rc_stk' = [rc_stk EXCEPT ![t] = IF t = Mon
                                  THEN <<"stop_auto_vad", "_auto_vad_loop">>
                                  ELSE <<"hk_idle">>]

\* duration < backchannel_duration_threshold, line 220, in frames
IsShort(frames) == Len(frames) < backchannel_duration_threshold

\* time.monotonic() - self.last_vad_action_time > 0.2, lines 350 and 370.
\* The field is "zero" (0.0), "fresh" (a time at most 200 ms ago) or
\* "stale" (an older time); the test fails only on a fresh time.
DebouncePasses == {last_vad_action_time # "fresh"}

recFlags == <<is_recording, state>>
cmdFlags == <<anti_backchannel_enabled, llm_interaction_allowed, active>>
vadFlags == <<vad_enabled, vad, auto_vad_enabled, _vad_shutdown_requested,
              last_vad_action_time>>
rcLogs == <<rc_blob, rc_persisted, rc_staged, rc_submitted, rc_nested>>
rcBox == <<mb_audio, mb_images, mb_nextId>>
rcCount == <<rc_events, rc_epoch, rc_auto>>
rcHist == <<rc_inprog, rc_cancelled, rc_monitors, rc_refused, rc_abignored,
            rc_join>>

\* settings.get("backchannel_duration_threshold", 0.8), line 63: 0 (the
\* minimum settings.py line 94 allows, no audio is short) or ThresholdFrames
Thresholds == {0, ThresholdFrames}

\* __init__, audio_recorder.py lines 49-68, command_mode.py line 75
RCFieldsFrom(events) ==
  /\ is_recording = FALSE
  /\ state = "idle"
  /\ audio_data = <<>>
  /\ lock = 0
  /\ anti_backchannel_enabled = TRUE
  /\ llm_interaction_allowed = FALSE
  /\ active = FALSE
  /\ vad_enabled = FALSE
  /\ vad = "None"
  /\ auto_vad_enabled = FALSE
  /\ _vad_shutdown_requested = FALSE
  /\ _audio_already_saved = FALSE
  /\ last_vad_action_time = "zero"
  /\ concatenated_audio = <<>>
  /\ rc_stk = [t \in RecThreads |-> IF t = Hk THEN <<"hk_idle">> ELSE <<>>]
  /\ rc_events = events
  /\ rc_epoch = 0
  /\ rc_auto = "none"
  /\ rc_inprog = {}
  /\ rc_cancelled = {}
  /\ rc_monitors = 0
  /\ rc_refused = FALSE
  /\ rc_abignored = FALSE
  /\ rc_join = "none"
  /\ rc_blob = <<>>
  /\ rc_persisted = <<>>
  /\ rc_staged = <<>>
  /\ rc_submitted = <<>>
  /\ rc_nested = {}

RCFields == RCFieldsFrom(0)

\* the recorder and the command layer use the MemoryBox through set_audio,
\* pop_bundle and clear, and nothing of the dispatcher or the overlay
\* and the threshold is read once, by __init__
RCFrame ==
  UNCHANGED <<dsVars, ovVars, mb_max, mb_lock, mb_pc, mb_local, mb_ret,
              mb_lin, mb_added, mb_lastMut, mb_popped, mb_held,
              backchannel_duration_threshold>>

\* memory_box.set_audio(frames as WAV bytes), logged with the filter flag
StageAudio(frames) ==
  /\ mb_audio' = mb_nextId
  /\ mb_nextId' = mb_nextId + 1
  /\ rc_blob' = Append(rc_blob, frames)
  /\ rc_staged' = Append(rc_staged,
                         [frames |-> frames, filter |-> anti_backchannel_enabled])

\* the locks of the program: AudioRecorder.lock (audio_recorder.py line 53),
\* MemoryBox._lock (memory_box.py line 22) and CommandMode.lock
\* (command_mode.py line 76), all threading.Lock, not reentrant
Locks == {"recorder", "memory_box", "command"}

\* the locks thread t holds between two of its steps: the recorder lock is
\* the only one kept over a call into another object
Holds(t) == IF lock = t THEN {"recorder"} ELSE {}

\* a thread that holds the locks in held takes lock l for the length of a
\* call (`with self._lock` in every MemoryBox method, `with self.lock` in
\* toggle_command_mode)
Nest(held, l) == rc_nested \cup {<<h, l>> : h \in held}

\* the frames of the blob with this id (None: no frames)
BlobFrames(id) == IF id = None THEN <<>> ELSE rc_blob[id]

\* executor.submit(self._dispatch_bundle_to_llm_thread, audio, images, ...)
Submit(audio, images, mode) ==
  rc_submitted' = Append(rc_submitted,
                         [frames |-> BlobFrames(audio), images |-> images,
                          mode |-> mode,
                          filter |-> anti_backchannel_enabled])

(***************************************************************************)
(* AudioRecorder methods, run by whichever thread calls them.              *)
(***************************************************************************)
\* toggle_recording, lines 70-92
toggle_recording(t) ==
  /\ RCFrame
  /\ At(t, "toggle_recording")
  /\ lock = 0
  /\ IF state = "idle"
     THEN IF _audio_already_saved
          THEN \* the assertion of line 77 fails
               /\ Raise(t)
               /\ UNCHANGED <<recFlags, audio_data, rc_epoch, rc_auto>>
          ELSE /\ rc_epoch < MaxRecordings
               /\ state' = "recording"
               /\ audio_data' = <<>>
               /\ is_recording' = TRUE
               /\ rc_epoch' = rc_epoch + 1
               /\ rc_stk' = [rc_stk EXCEPT
                               ![t] = Tail(@),
                               ![CapThread(rc_epoch + 1)] = <<"rec_open">>]
     ELSE /\ state' = IF state = "recording" THEN "paused" ELSE "recording"
          /\ Return(t)
          /\ UNCHANGED <<is_recording, audio_data, rc_epoch, rc_auto>>
  /\ UNCHANGED <<lock, cmdFlags, vadFlags, _audio_already_saved,
                 concatenated_audio, rc_events, rc_auto, rcLogs, rcBox,
                 rcHist>>

\* stop_recording, lines 94-104
stop_recording(t) ==
  /\ RCFrame
  /\ At(t, "stop_recording")
  /\ lock = 0
  /\ is_recording' = FALSE
  /\ state' = "idle"
  /\ Return(t)
  /\ UNCHANGED <<audio_data, lock, cmdFlags, vadFlags, _audio_already_saved,
                 concatenated_audio, rcCount, rcLogs, rcBox, rcHist>>

\* cancel_recording, lines 106-117
cancel_recording(t) ==
  /\ RCFrame
  /\ At(t, "cancel_recording")
  /\ lock = 0
  /\ rc_cancelled' = IF is_recording THEN rc_cancelled \cup {rc_epoch}
                     ELSE rc_cancelled
  /\ is_recording' = FALSE
  /\ state' = "idle"
  /\ audio_data' = <<>>
  /\ Return(t)
  /\ UNCHANGED <<lock, cmdFlags, vadFlags, _audio_already_saved,
                 concatenated_audio, rcCount, rcLogs, rcBox, rc_inprog,
                 rc_monitors, rc_refused, rc_abignored, rc_join>>

\* clear_state, lines 407-422
clear_state(t) ==
  /\ RCFrame
  /\ At(t, "clear_state")
  /\ lock = 0
  /\ is_recording' = FALSE
  /\ state' = "idle"
  /\ audio_data' = <<>>
  /\ _audio_already_saved' = FALSE
  /\ last_vad_action_time' = "zero"
  /\ Return(t)
  /\ UNCHANGED <<lock, cmdFlags, vad_enabled, vad, auto_vad_enabled,
                 _vad_shutdown_requested, concatenated_audio, rcCount, rcLogs,
                 rcBox, rcHist>>

\* the backchannel filter of line 220
Discards(frames) == anti_backchannel_enabled /\ IsShort(frames)

\* line 225: datetime.datetime.now().strftime("%H-%M-%S_audio.wav"), the
\* name of the file in the session's audio directory (line 226).  Seconds
\* are numbered in the order in which files are written in them: the clock
\* shows the second of the file written last, or a later one.
FileNames(files) ==
  IF files = <<>> THEN {1}
  ELSE {files[Len(files)].name, files[Len(files)].name + 1}

\* _handle_completed_utterance, lines 206-249: the lock is taken; a saved or
\* empty buffer returns, a short one is dropped by the filter; otherwise the
\* audio is written to its file and staged in the MemoryBox
_handle_completed_utterance(t) ==
  /\ RCFrame
  /\ At(t, "_handle_completed_utterance")
  /\ lock = 0
  /\ IF _audio_already_saved \/ audio_data = <<>>
     THEN /\ Return(t)
          /\ UNCHANGED <<audio_data, lock, _audio_already_saved, rcLogs,
                         rcBox>>
     ELSE IF Discards(audio_data)
     THEN /\ audio_data' = <<>>
          /\ Return(t)
          /\ UNCHANGED <<lock, _audio_already_saved, rcLogs, rcBox>>
     ELSE /\ \E name \in FileNames(rc_persisted) :
               rc_persisted' = Append(rc_persisted,
                                      [frames |-> audio_data,
                                       filter |-> anti_backchannel_enabled,
                                       name |-> name])
          /\ _audio_already_saved' = TRUE
          /\ StageAudio(audio_data)
          /\ rc_nested' = Nest({"recorder"}, "memory_box")
          /\ lock' = t
          /\ Goto(t, "hcu_dispatch")
          /\ UNCHANGED <<audio_data, mb_images, rc_submitted>>
  /\ UNCHANGED <<recFlags, cmdFlags, vadFlags, concatenated_audio, rcCount,
                 rcHist>>

\* a finalize that submits whatever the gate says
GateIgnored == TRUE
\* line 253: if self.llm_interaction_allowed
GateOpen == llm_interaction_allowed

\* lines 253-260, still under the lock: with LLM interaction allowed the
\* bundle is popped and submitted
hcu_dispatch(t) ==
  /\ RCFrame
  /\ At(t, "hcu_dispatch")
  /\ IF GateOpen
     THEN /\ Submit(mb_audio, mb_images, "AutoVAD")
          /\ mb_audio' = None
          /\ mb_images' = <<>>
          /\ rc_nested' = Nest(Holds(t), "memory_box")
     ELSE UNCHANGED <<rc_submitted, mb_audio, mb_images, rc_nested>>
  /\ Goto(t, "hcu_clear")
  /\ UNCHANGED <<recFlags, audio_data, lock, cmdFlags, vadFlags,
                 _audio_already_saved, concatenated_audio, rcCount, rc_blob,
                 rc_persisted, rc_staged, mb_nextId, rcHist>>

\* a with block that leaves the lock with the thread that took it
StillLocked(t) == t
\* line 263, the end of `with self.lock:` (line 206)
Unlocked(t) == 0

\* lines 262-263: the buffer is emptied and the lock released
hcu_clear(t) ==
  /\ RCFrame
  /\ At(t, "hcu_clear")
  /\ audio_data' = <<>>
  /\ lock' = Unlocked(t)
  /\ Return(t)
  /\ UNCHANGED <<recFlags, cmdFlags, vadFlags, _audio_already_saved,
                 concatenated_audio, rcCount, rcLogs, rcBox, rcHist>>

\* a test of the flag alone, blind to a monitor that outlived its join
OnlyFlag == auto_vad_enabled
\* line 271: self.auto_vad_enabled or (self.vad_thread and
\* self.vad_thread.is_alive())
AlreadyActive == auto_vad_enabled \/ rc_stk[Mon] # <<>>

\* start_auto_vad, lines 265-280
start_auto_vad(t) ==
  /\ RCFrame
  /\ At(t, "start_auto_vad")
  /\ lock = 0
  /\ IF AlreadyActive
     THEN /\ Return(t)
          /\ rc_refused' = (rc_refused \/ ~auto_vad_enabled)
          /\ UNCHANGED <<auto_vad_enabled, _vad_shutdown_requested,
                         rc_monitors>>
     ELSE /\ _vad_shutdown_requested' = FALSE
          /\ auto_vad_enabled' = TRUE
          /\ rc_monitors' = rc_monitors + 1
          /\ UNCHANGED rc_refused
          /\ rc_stk' = [rc_stk EXCEPT ![t] = Tail(@),
                                      ![Mon] = <<"_auto_vad_loop">>]
  /\ UNCHANGED <<recFlags, audio_data, lock, cmdFlags, vad_enabled, vad,
                 last_vad_action_time, _audio_already_saved,
                 concatenated_audio, rcCount, rcLogs, rcBox, rc_inprog,
                 rc_cancelled, rc_abignored, rc_join>>

\* stop_auto_vad, lines 287-289: an active recording is finalized first
stop_auto_vad(t) ==
  /\ RCFrame
  /\ At(t, "stop_auto_vad")
  /\ IF is_recording
     THEN /\ Call(t, "_handle_completed_utterance", "stop_vad_flags")
          /\ rc_inprog' = rc_inprog \cup {t}
     ELSE /\ Goto(t, "stop_vad_flags")
          /\ rc_inprog' = rc_inprog \ {t}
  /\ UNCHANGED <<recFlags, audio_data, lock, cmdFlags, vadFlags,
                 _audio_already_saved, concatenated_audio, rcCount, rcLogs,
                 rcBox, rc_cancelled, rc_monitors,
                 rc_refused, rc_abignored, rc_join>>

\* lines 291-296: the flags are set under the lock, then cancel_recording
stop_vad_flags(t) ==
  /\ RCFrame
  /\ At(t, "stop_vad_flags")
  /\ lock = 0
  /\ auto_vad_enabled' = FALSE
  /\ is_recording' = FALSE
  /\ _vad_shutdown_requested' = TRUE
  /\ Call(t, "cancel_recording", "stop_vad_clear")
  /\ UNCHANGED <<state, audio_data, lock, cmdFlags, vad_enabled, vad,
                 last_vad_action_time, _audio_already_saved,
                 concatenated_audio, rcCount, rcLogs, rcBox, rcHist>>

\* line 297: clear_state
stop_vad_clear(t) ==
  /\ RCFrame
  /\ At(t, "stop_vad_clear")
  /\ Call(t, "clear_state", "stop_vad_join")
  /\ UNCHANGED <<recFlags, audio_data, lock, cmdFlags, vadFlags,
                 _audio_already_saved, concatenated_audio, rcCount, rcLogs,
                 rcBox, rcHist>>

\* a stop_auto_vad that joins whatever thread calls it
AnyThread(t) == TRUE
\* line 300: threading.current_thread() != self.vad_thread
NotSelf(t) == t # Mon

\* lines 299-309: a live monitor is joined for at most a second (the join
\* returns when the monitor has ended or the second is over, so the monitor
\* may still be running afterwards), unless the caller is the monitor; then
\* self.vad is dropped.  Thread.join on the calling thread raises
\* RuntimeError: in the monitor that leaves the handler of line 381 for
\* the finally block.
stop_vad_join(t) ==
  /\ RCFrame
  /\ At(t, "stop_vad_join")
  /\ LET alive == rc_stk[Mon] # <<>>
         joins == alive /\ NotSelf(t)
     IN  IF joins /\ t = Mon
         THEN /\ rc_join' = "self"
              /\ rc_stk' = [rc_stk EXCEPT ![t] = <<"vad_exit">>]
              /\ UNCHANGED vad
         ELSE /\ rc_join' = IF ~alive THEN rc_join
                            ELSE IF joins THEN "joined" ELSE "skipped"
              /\ vad' = "None"
              /\ Return(t)
  /\ rc_inprog' = rc_inprog \ {t}
  /\ UNCHANGED <<recFlags, audio_data, lock, cmdFlags, vad_enabled,
                 auto_vad_enabled, _vad_shutdown_requested,
                 last_vad_action_time, _audio_already_saved,
                 concatenated_audio, rcCount, rcLogs, rcBox, rc_cancelled,
                 rc_monitors, rc_refused, rc_abignored>>

(***************************************************************************)
(* The capture thread, _record, lines 119-179.                             *)
(***************************************************************************)
\* lines 126-131 and 178-179: the microphone cannot be opened; the handler
\* around the whole function logs the error and the thread ends
rec_open_error(k) ==
  /\ RCFrame
  /\ At(CapThread(k), "rec_open")
  /\ rc_events < MaxEvents
  /\ rc_events' = rc_events + 1
  /\ Return(CapThread(k))
  /\ UNCHANGED <<recFlags, audio_data, lock, cmdFlags, vadFlags,
                 _audio_already_saved, concatenated_audio, rc_epoch, rc_auto,
                 rcLogs, rcBox, rcHist>>

\* lines 126-139: the microphone is opened when the thread starts; then the
\* loop test; a thread that finds the recording paused sleeps and tests
\* again
_record(k) ==
  /\ RCFrame
  /\ At(CapThread(k), "rec_open") \/ At(CapThread(k), "_record")
  /\ IF ~is_recording
     THEN Goto(CapThread(k), "rec_exit")
     ELSE /\ state = "recording"
          /\ rc_events < MaxEvents
          /\ Goto(CapThread(k), "rec_frame")
  /\ UNCHANGED <<recFlags, audio_data, lock, cmdFlags, vadFlags,
                 _audio_already_saved, concatenated_audio, rcCount, rcLogs,
                 rcBox, rcHist>>

\* lines 139-166: mic.record has returned a frame; under the lock it is
\* appended (with VAD on, only if it is speech), whatever state says by now
rec_frame(k, is_speech) ==
  /\ RCFrame
  /\ At(CapThread(k), "rec_frame")
  /\ lock = 0
  /\ ~vad_enabled \/ vad # "None"
  /\ vad_enabled \/ is_speech
  /\ IF is_speech
     THEN /\ rc_events < MaxEvents
          /\ rc_events' = rc_events + 1
          /\ audio_data' = Append(audio_data,
                                  [rec |-> rc_epoch, by |-> k])
     ELSE UNCHANGED <<audio_data, rc_events>>
  /\ Goto(CapThread(k), "_record")
  /\ UNCHANGED <<recFlags, lock, cmdFlags, vadFlags, _audio_already_saved,
                 concatenated_audio, rc_epoch, rc_auto, rcLogs,
                 rcBox, rcHist>>

\* lines 167-171: mic.record or the VAD raises (self.vad is None while
\* vad_enabled is still set, or a device error); the thread ends the
\* recording itself
rec_error(k) ==
  /\ RCFrame
  /\ At(CapThread(k), "rec_frame")
  /\ (vad_enabled /\ vad = "None") \/ rc_events < MaxEvents
  /\ rc_events' = IF vad_enabled /\ vad = "None" THEN rc_events
                  ELSE rc_events + 1
  /\ is_recording' = FALSE
  /\ state' = "idle"
  /\ Goto(CapThread(k), "rec_exit")
  /\ UNCHANGED <<audio_data, lock, cmdFlags, vadFlags, _audio_already_saved,
                 concatenated_audio, rc_epoch, rc_auto, rcLogs,
                 rcBox, rcHist>>

\* lines 173-177: after the loop, buffered audio of an idle recorder is
\* finalized and the state cleared
rec_exit(k) ==
  /\ RCFrame
  /\ At(CapThread(k), "rec_exit")
  /\ IF audio_data # <<>> /\ state = "idle"
     THEN rc_stk' = [rc_stk EXCEPT ![CapThread(k)] =
                       <<"_handle_completed_utterance", "clear_state">>]
     ELSE Return(CapThread(k))
  /\ UNCHANGED <<recFlags, audio_data, lock, cmdFlags, vadFlags,
                 _audio_already_saved, concatenated_audio, rcCount, rcLogs,
                 rcBox, rcHist>>

(***************************************************************************)
(* The Auto-VAD monitor, _auto_vad_loop, lines 311-388.                    *)
(***************************************************************************)
\* lines 313-316 and 332-335: the loop tests
_auto_vad_loop ==
  /\ RCFrame
  /\ At(Mon, "_auto_vad_loop")
  /\ IF auto_vad_enabled /\ ~_vad_shutdown_requested
     THEN Goto(Mon, "vad_frame")
     ELSE Goto(Mon, "vad_exit")
  /\ UNCHANGED <<recFlags, audio_data, lock, cmdFlags, vadFlags,
                 _audio_already_saved, concatenated_audio, rcCount, rcLogs,
                 rcBox, rcHist>>

\* lines 337-357: a frame with speech; a recording is started unless one is
\* running or the debounce holds it back
vad_speech(passes) ==
  /\ RCFrame
  /\ At(Mon, "vad_frame")
  /\ vad # "None"
  /\ passes \in DebouncePasses
  /\ IF ~is_recording /\ passes
     THEN /\ rc_events < MaxEvents
          /\ rc_events' = rc_events + 1
          /\ rc_auto' = "fresh"
          /\ Call(Mon, "toggle_recording", "vad_mark")
     ELSE /\ Goto(Mon, "_auto_vad_loop")
          /\ UNCHANGED <<rc_events, rc_auto>>
  /\ UNCHANGED <<recFlags, audio_data, lock, cmdFlags, vadFlags,
                 _audio_already_saved, concatenated_audio, rc_epoch, rcLogs,
                 rcBox, rcHist>>

\* a monitor that stops at every silence frame that passes the debounce
StopsAnyway(timeout, passes) == passes
\* lines 368 and 370: self.is_recording and time.time() -
\* self.last_speech_time > self.silence_timeout, then the debounce
SilenceStops(timeout, passes) == is_recording /\ timeout /\ passes

\* lines 363-377: a frame without speech; after silence_timeout without
\* speech (timeout) a running recording is stopped, unless debounced.  The
\* recording was started or resumed, and speech last heard, after the last
\* automatic transition: with silence_timeout (default 1.5 s) above 200 ms
\* the timeout cannot be over while that transition is fresh.
vad_silence(timeout, passes) ==
  /\ RCFrame
  /\ At(Mon, "vad_frame")
  /\ vad # "None"
  /\ passes \in DebouncePasses
  /\ timeout => rc_auto # "fresh"
  /\ IF SilenceStops(timeout, passes)
     THEN /\ rc_auto' = "fresh"
          /\ Call(Mon, "stop_recording", "vad_finalize")
     ELSE /\ Goto(Mon, "_auto_vad_loop")
          /\ UNCHANGED rc_auto
  /\ UNCHANGED <<recFlags, audio_data, lock, cmdFlags, vadFlags,
                 _audio_already_saved, concatenated_audio, rc_events,
                 rc_epoch, rcLogs, rcBox, rcHist>>

\* lines 341-343: self.vad is None, the inner loop is left
vad_none ==
  /\ RCFrame
  /\ At(Mon, "vad_frame")
  /\ vad = "None"
  /\ Goto(Mon, "_auto_vad_loop")
  /\ UNCHANGED <<recFlags, audio_data, lock, cmdFlags, vadFlags,
                 _audio_already_saved, concatenated_audio, rcCount, rcLogs,
                 rcBox, rcHist>>

\* lines 381-383: the device raises; stop_auto_vad runs on the monitor
vad_error ==
  /\ RCFrame
  /\ At(Mon, "vad_frame")
  /\ rc_events < MaxEvents
  /\ rc_events' = rc_events + 1
  /\ Raise(Mon)
  /\ UNCHANGED <<recFlags, audio_data, lock, cmdFlags, vadFlags,
                 _audio_already_saved, concatenated_audio, rc_epoch, rc_auto,
                 rcLogs, rcBox, rcHist>>

\* lines 373-374: after stop_recording the utterance is finalized and the
\* state cleared
vad_finalize ==
  /\ RCFrame
  /\ At(Mon, "vad_finalize")
  /\ rc_stk' = [rc_stk EXCEPT ![Mon] =
                  <<"_handle_completed_utterance", "clear_state", "vad_mark">>
                    \o Tail(@)]
  /\ UNCHANGED <<recFlags, audio_data, lock, cmdFlags, vadFlags,
                 _audio_already_saved, concatenated_audio, rcCount, rcLogs,
                 rcBox, rcHist>>

\* lines 353 and 375: self.last_vad_action_time = current_time, the time
\* read at line 349 or 369 just before the transition
vad_mark ==
  /\ RCFrame
  /\ At(Mon, "vad_mark")
  /\ last_vad_action_time' = rc_auto
  /\ Goto(Mon, "_auto_vad_loop")
  /\ UNCHANGED <<recFlags, audio_data, lock, cmdFlags, vad_enabled, vad,
                 auto_vad_enabled, _vad_shutdown_requested,
                 _audio_already_saved, concatenated_audio, rcCount, rcLogs,
                 rcBox, rcHist>>

\* lines 385-388: the finally block, then the thread ends
vad_exit ==
  /\ RCFrame
  /\ At(Mon, "vad_exit")
  /\ lock = 0
  /\ auto_vad_enabled' = FALSE
  /\ rc_monitors' = rc_monitors - 1
  /\ Return(Mon)
  /\ UNCHANGED <<recFlags, audio_data, lock, cmdFlags, vad_enabled, vad,
                 _vad_shutdown_requested, last_vad_action_time,
                 _audio_already_saved, concatenated_audio, rcCount, rcLogs,
                 rcBox, rc_inprog, rc_cancelled, rc_refused,
                 rc_abignored, rc_join>>

\* time.monotonic() advances: 200 ms have passed since the last automatic
\* transition, and so since the time last_vad_action_time holds
time_passes ==
  /\ RCFrame
  /\ rc_auto = "fresh"
  /\ rc_auto' = "stale"
  /\ last_vad_action_time' = IF last_vad_action_time = "fresh" THEN "stale"
                             ELSE last_vad_action_time
  /\ UNCHANGED <<recFlags, audio_data, lock, cmdFlags, vad_enabled, vad,
                 auto_vad_enabled, _vad_shutdown_requested,
                 _audio_already_saved, concatenated_audio, rc_stk, rc_events,
                 rc_epoch, rcLogs, rcBox, rcHist>>

(***************************************************************************)
(* CommandMode: the hotkey callbacks, one at a time on the hotkey thread.  *)
(***************************************************************************)
\* a hotkey is pressed while no callback runs; the command hotkeys are
\* registered only while command mode is active (lines 138-141, 151)
Press(needsActive) ==
  /\ At(Hk, "hk_idle")
  /\ needsActive => active
  /\ rc_events < MaxEvents
  /\ rc_events' = rc_events + 1

\* toggle_command_mode, lines 119-165
toggle_command_mode ==
  /\ RCFrame
  /\ Press(FALSE)
  /\ active' = ~active
  /\ llm_interaction_allowed' = ~active
  /\ rc_nested' = Nest(Holds(Hk), "command")
  /\ UNCHANGED <<recFlags, audio_data, lock, anti_backchannel_enabled,
                 vadFlags, _audio_already_saved, concatenated_audio, rc_stk,
                 rc_epoch, rc_auto, rc_blob, rc_persisted, rc_staged,
                 rc_submitted, rcBox, rcHist>>

\* record_audio, lines 351-358
record_audio ==
  /\ RCFrame
  /\ Press(TRUE)
  /\ Call(Hk, "toggle_recording", "hk_idle")
  /\ UNCHANGED <<recFlags, audio_data, lock, cmdFlags, vadFlags,
                 _audio_already_saved, concatenated_audio, rc_epoch, rc_auto,
                 rcLogs, rcBox, rcHist>>

\* CommandMode.cancel_recording, lines 360-365
cmd_cancel_recording ==
  /\ RCFrame
  /\ Press(TRUE)
  /\ rc_stk' = [rc_stk EXCEPT ![Hk] =
                  <<"cancel_recording", "cancel_clear", "hk_idle">>]
  /\ UNCHANGED <<recFlags, audio_data, lock, cmdFlags, vadFlags,
                 _audio_already_saved, concatenated_audio, rc_epoch, rc_auto,
                 rcLogs, rcBox, rcHist>>

\* lines 366-370: memory_box.clear()
cancel_clear ==
  /\ RCFrame
  /\ At(Hk, "cancel_clear")
  /\ mb_audio' = None
  /\ mb_images' = <<>>
  /\ rc_nested' = Nest(Holds(Hk), "memory_box")
  /\ Return(Hk)
  /\ UNCHANGED <<recFlags, audio_data, lock, cmdFlags, vadFlags,
                 _audio_already_saved, concatenated_audio, rcCount, rc_blob,
                 rc_persisted, rc_staged, rc_submitted, mb_nextId, rcHist>>

\* a toggle that never looks at Auto-VAD
ToggleAlways == TRUE
\* command_mode.py line 456, audio_recorder.py line 393: auto_vad_enabled
ToggleAllowed == auto_vad_enabled

\* toggle_anti_backchannel, command_mode.py 449-459, audio_recorder.py 392-399
toggle_anti_backchannel ==
  /\ RCFrame
  /\ Press(TRUE)
  /\ IF ToggleAllowed
     THEN /\ anti_backchannel_enabled' = ~anti_backchannel_enabled
          /\ UNCHANGED rc_abignored
     ELSE /\ rc_abignored' = TRUE
          /\ UNCHANGED anti_backchannel_enabled
  /\ UNCHANGED <<recFlags, audio_data, lock, llm_interaction_allowed, active,
                 vadFlags, _audio_already_saved, concatenated_audio, rc_stk,
                 rc_epoch, rc_auto, rcLogs, rcBox, rc_inprog, rc_cancelled,
                 rc_monitors, rc_refused, rc_join>>

\* toggle_vad, lines 329-349
toggle_vad ==
  /\ RCFrame
  /\ Press(TRUE)
  /\ vad_enabled' = ~vad_enabled
  /\ vad' = IF vad_enabled THEN "None" ELSE "Vad"
  /\ Call(Hk, IF vad_enabled THEN "stop_auto_vad" ELSE "start_auto_vad",
          "hk_idle")
  /\ UNCHANGED <<recFlags, audio_data, lock, cmdFlags, auto_vad_enabled,
                 _vad_shutdown_requested, last_vad_action_time,
                 _audio_already_saved, concatenated_audio, rc_epoch, rc_auto,
                 rcLogs, rcBox, rcHist>>

\* send_audio, lines 379-382: a recorder that is not idle is stopped
send_audio ==
  /\ RCFrame
  /\ Press(TRUE)
  /\ rc_stk' = [rc_stk EXCEPT ![Hk] =
                  IF state # "idle"
                  THEN <<"stop_recording", "send_test", "hk_idle">>
                  ELSE <<"send_test", "hk_idle">>]
  /\ UNCHANGED <<recFlags, audio_data, lock, cmdFlags, vadFlags,
                 _audio_already_saved, concatenated_audio, rc_epoch, rc_auto,
                 rcLogs, rcBox, rcHist>>

\* line 385: `if self.audio_recorder.audio_data:`, read without the lock
send_test ==
  /\ RCFrame
  /\ At(Hk, "send_test")
  /\ Goto(Hk, IF audio_data # <<>> THEN "send_concatenate" ELSE "send_pop")
  /\ UNCHANGED <<recFlags, audio_data, lock, cmdFlags, vadFlags,
                 _audio_already_saved, concatenated_audio, rcCount, rcLogs,
                 rcBox, rcHist>>

\* lines 386-391: np.concatenate(self.audio_recorder.audio_data), read
\* without the lock; it raises ValueError on a list emptied meanwhile
send_concatenate ==
  /\ RCFrame
  /\ At(Hk, "send_concatenate")
  /\ IF audio_data = <<>>
     THEN /\ Raise(Hk)
          /\ UNCHANGED concatenated_audio
     ELSE /\ concatenated_audio' = audio_data
          /\ Goto(Hk, "send_stage")
  /\ UNCHANGED <<recFlags, audio_data, lock, cmdFlags, vadFlags,
                 _audio_already_saved, rcCount, rcLogs, rcBox, rcHist>>

\* line 392: memory_box.set_audio(audio_bytes)
send_stage ==
  /\ RCFrame
  /\ At(Hk, "send_stage")
  /\ StageAudio(concatenated_audio)
  /\ rc_nested' = Nest(Holds(Hk), "memory_box")
  /\ Goto(Hk, "send_reset")
  /\ UNCHANGED <<recFlags, audio_data, lock, cmdFlags, vadFlags,
                 _audio_already_saved, concatenated_audio, rcCount,
                 rc_persisted, rc_submitted, mb_images, rcHist>>

\* line 393: self.audio_recorder.audio_data = [], without the lock
send_reset ==
  /\ RCFrame
  /\ At(Hk, "send_reset")
  /\ audio_data' = <<>>
  /\ concatenated_audio' = <<>>
  /\ Goto(Hk, "send_pop")
  /\ UNCHANGED <<recFlags, lock, cmdFlags, vadFlags, _audio_already_saved,
                 rcCount, rcLogs, rcBox, rcHist>>

\* lines 396-403: the bundle is popped and, unless empty, submitted
send_pop ==
  /\ RCFrame
  /\ At(Hk, "send_pop")
  /\ IF mb_audio # None \/ mb_images # <<>>
     THEN Submit(mb_audio, mb_images, "Manual")
     ELSE UNCHANGED rc_submitted
  /\ mb_audio' = None
  /\ mb_images' = <<>>
  /\ rc_nested' = Nest(Holds(Hk), "memory_box")
  /\ Return(Hk)
  /\ UNCHANGED <<recFlags, audio_data, lock, cmdFlags, vadFlags,
                 _audio_already_saved, concatenated_audio, rcCount, rc_blob,
                 rc_persisted, rc_staged, mb_nextId, rcHist>>

\* the AudioRecorder methods as run by thread t
Methods(t) ==
  \/ toggle_recording(t)
  \/ stop_recording(t)
  \/ cancel_recording(t)
  \/ clear_state(t)
  \/ _handle_completed_utterance(t)
  \/ hcu_dispatch(t)
  \/ hcu_clear(t)
  \/ start_auto_vad(t)
  \/ stop_auto_vad(t)
  \/ stop_vad_flags(t)
  \/ stop_vad_clear(t)
  \/ stop_vad_join(t)

RCNext ==
  \/ \E t \in RecThreads : Methods(t)
  \/ \E k \in 1..MaxRecordings :
       \/ rec_open_error(k)
       \/ _record(k)
       \/ \E is_speech \in BOOLEAN : rec_frame(k, is_speech)
       \/ rec_error(k)
       \/ rec_exit(k)
  \/ _auto_vad_loop
  \/ \E passes \in BOOLEAN : vad_speech(passes)
  \/ \E timeout, passes \in BOOLEAN : vad_silence(timeout, passes)
  \/ vad_none
  \/ vad_error
  \/ vad_finalize
  \/ vad_mark
  \/ vad_exit
  \/ time_passes
  \/ toggle_command_mode
  \/ record_audio
  \/ cmd_cancel_recording
  \/ cancel_clear
  \/ toggle_anti_backchannel
  \/ toggle_vad
  \/ send_audio
  \/ send_test
  \/ send_concatenate
  \/ send_stage
  \/ send_reset
  \/ send_pop

(***************************************************************************)
(* The specifications: one component runs, the others stay as constructed. *)
(***************************************************************************)
DSParked ==
  /\ gui_listener = TRUE
  /\ ds_pc = [w \in Workers |-> "idle"]
  /\ ds_rid = [w \in Workers |-> 0]
  /\ ds_bundle = [w \in Workers |-> "data"]
  /\ ds_full = [w \in Workers |-> <<>>]
  /\ ds_exc = [w \in Workers |-> "none"]
  /\ ds_nextRid = 1
  /\ ds_empties = 0
  /\ ds_out = [r \in Requests |->
                 [status |-> "none", value |-> <<>>, backend |-> "ok"]]
  /\ sink = [r \in Requests |-> <<>>]

OVParked ==
  /\ OVFields(DefaultBufferSize, TRUE)
  /\ ov_script = [r \in Streams |-> <<>>]
  /\ ov_rq = [r \in Streams |-> "new"]

RCParked == RCFields /\ backchannel_duration_threshold = ThresholdFrames

MBParked == MBFields(DefaultMaxImages)

InitMB == MBInit /\ DSParked /\ OVParked /\ RCParked
SpecMB == InitMB /\ [][MBNext]_vars

InitDispatch == DSInit /\ MBParked /\ OVParked /\ RCParked
SpecDispatch == InitDispatch /\ [][DSNext]_vars

InitOverlay == OVInit /\ MBParked /\ DSParked /\ RCParked
SpecOverlay == InitOverlay /\ [][OVNext]_vars

InitRec ==
  /\ RCFields
  /\ backchannel_duration_threshold \in Thresholds
  /\ MBParked /\ DSParked /\ OVParked
SpecRec == InitRec /\ [][RCNext]_vars

\* a step of thread t that is not an event from outside (a key press, a
\* frame or an error of the device)
ThreadStep(t) ==
  /\ rc_stk[t] # <<>>
  /\ \/ Methods(t)
     \/ t = Mon /\ \/ _auto_vad_loop
                   \/ \E passes \in BOOLEAN : vad_speech(passes)
                   \/ \E timeout, passes \in BOOLEAN :
                        vad_silence(timeout, passes)
                   \/ vad_none
                   \/ vad_finalize
                   \/ vad_mark
                   \/ vad_exit
     \/ t = Hk /\ \/ cancel_clear
                  \/ send_test
                  \/ send_concatenate
                  \/ send_stage
                  \/ send_reset
                  \/ send_pop
     \/ \E k \in 1..MaxRecordings :
          t = CapThread(k) /\ (_record(k) \/ rec_exit(k))
  /\ rc_events' = rc_events

\* the recorder as constructed, with FairEvents events of the budget left
InitRecFair ==
  /\ MBParked /\ DSParked /\ OVParked
  /\ RCFieldsFrom(MaxEvents - FairEvents)
  /\ backchannel_duration_threshold \in Thresholds

\* the recorder with its threads scheduled: a thread that can go on, without
\* waiting for the device or for a key, eventually does
SpecRecFair ==
  /\ InitRecFair
  /\ [][RCNext]_vars
  /\ \A t \in RecThreads : WF_vars(ThreadStep(t))

\* manual recording: the hotkeys that switch command mode, start or pause
\* a recording and send it, the capture thread without device errors, and
\* the recorder methods these run
ManualNext ==
  \/ \E t \in RecThreads :
       \/ toggle_recording(t)
       \/ stop_recording(t)
       \/ clear_state(t)
       \/ _handle_completed_utterance(t)
       \/ hcu_dispatch(t)
       \/ hcu_clear(t)
  \/ \E k \in 1..MaxRecordings :
       \/ _record(k)
       \/ rec_frame(k, TRUE)
       \/ rec_exit(k)
  \/ toggle_command_mode
  \/ record_audio
  \/ send_audio
  \/ send_test
  \/ send_concatenate
  \/ send_stage
  \/ send_reset
  \/ send_pop

\* the recorder as constructed, with ManualEvents events of the budget left
InitRecManual ==
  /\ MBParked /\ DSParked /\ OVParked
  /\ RCFieldsFrom(MaxEvents - ManualEvents)
  /\ backchannel_duration_threshold \in Thresholds

\* the recorder used by hand only: auto-VAD is never switched on and the
\* device does not fail
SpecRecManual == InitRecManual /\ [][ManualNext]_vars

(***************************************************************************)
(* Claims about the Staging Buffer, checked under SpecMB.                  *)
(***************************************************************************)
Predicates == {"is_empty", "has_audio", "has_image", "has_data"}

\* C1: the number of staged images never exceeds max_images, and the staged
\* list is exactly the last max_images of the images added since the list
\* was last emptied, in insertion order (the oldest are evicted first).
C1_ImagesBounded ==
  /\ Len(mb_images) <= mb_max
  /\ mb_images = Last(mb_added, mb_max)

\* C1 witness: more images were added than fit and the list is full.
C1_Witness ==
  /\ mb_max >= 1
  /\ Len(mb_added) > mb_max
  /\ Len(mb_images) = mb_max

\* C2: pop_bundle is atomic: the bundle it returns is the contents as they
\* were at the instant it took effect; whenever no call is in progress the
\* fields hold exactly what the calls, each taken at one instant, leave;
\* every get_bundle and every predicate answers on such contents (never on
\* a half-cleared bundle); and no blob or image is returned by two pops.
C2_PopAtomic ==
  /\ (\A t \in Callers : mb_pc[t] = "idle") => Staged = mb_lin
  /\ mb_ret.op = "get_bundle" =>
       [audio |-> mb_ret.audio, images |-> mb_ret.images] = mb_ret.lin
  /\ mb_ret.op \in Predicates => mb_ret.val = mb_ret.linval
  /\ mb_ret.op = "pop_bundle" =>
       /\ [audio |-> mb_ret.audio, images |-> mb_ret.images] = mb_ret.was
       /\ ~mb_ret.dup

\* C2 witness: a pop_bundle that read audio and images is half-way through
\* line 78: the audio is cleared and the images are still in the list.
C2_Witness ==
  \E t \in Callers :
    /\ mb_pc[t] = "pop_return"
    /\ mb_local[t].audio # None
    /\ mb_audio = None
    /\ mb_images # <<>>

\* C3: a get_bundle whose last preceding change of the contents is a
\* pop_bundle returns no audio and no images, and is_empty is then true.
C3_PopThenGetEmpty ==
  /\ (mb_ret.op = "get_bundle" /\ mb_ret.last = "pop_bundle") =>
       (mb_ret.audio = None /\ mb_ret.images = <<>>)
  /\ (mb_ret.op = "is_empty" /\ mb_ret.last = "pop_bundle") => mb_ret.val

\* C3 witness: get_bundle right after a pop_bundle that returned audio and
\* images.
C3_Witness ==
  /\ mb_ret.op = "get_bundle"
  /\ mb_ret.last = "pop_bundle"
  /\ Cardinality(mb_popped) >= 2

(***************************************************************************)
(* Claims about the dispatcher, checked under SpecDispatch.                *)
(***************************************************************************)
\* the events of one request so far: STREAM_START first and only first,
\* STREAM_END nowhere but last, STREAM_CHUNK in between, one request id
StartChunksEnd(q, r) ==
  /\ q[1].kind = "STREAM_START"
  /\ \A i \in 2..Len(q) : q[i].kind # "STREAM_START"
  /\ \A i \in 1..(Len(q) - 1) : q[i].kind # "STREAM_END"
  /\ \A i \in 2..(Len(q) - 1) : q[i].kind = "STREAM_CHUNK"
  /\ \A i \in 1..Len(q) : q[i].rid = r

\* C6: with a listener attached, every send_bundle call emits STREAM_START,
\* then zero or more STREAM_CHUNK, then exactly one STREAM_END, all with the
\* request id of that call; the STREAM_END is emitted also when the backend
\* raises; and send_bundle never raises to its caller.
C6_StartChunksEnd ==
  \A r \in Requests :
    /\ ds_out[r].status # "raised"
    /\ gui_listener =>
         /\ ds_out[r].status = "none" => sink[r] = <<>>
         /\ ds_out[r].status # "none" =>
              /\ sink[r] # <<>>
              /\ StartChunksEnd(sink[r], r)
         /\ ds_out[r].status = "running" =>
              sink[r][Len(sink[r])].kind # "STREAM_END"
         /\ ds_out[r].status = "returned" =>
              /\ Len(sink[r]) >= 2
              /\ sink[r][Len(sink[r])].kind = "STREAM_END"

\* C6 witness: a call whose backend raised after yielding a chunk has
\* returned, and its STREAM_START, chunk(s) and STREAM_END were delivered.
C6_Witness ==
  \E r \in Requests :
    /\ gui_listener
    /\ ds_out[r].status = "returned"
    /\ ds_out[r].backend # "ok"
    /\ Len(ds_out[r].value) >= 1
    /\ Len(sink[r]) >= 3

(***************************************************************************)
(* Claims about the stream reply extractor, checked under SpecOverlay.     *)
(***************************************************************************)
\* stream r is the only one that has reached the overlay
OnlyStream(r) == \A q \in Streams \ {r} : ov_rq[q] \in {"new", "absent"}

\* "Hello world\n"
HelloWorld == <<"H", "e", "l", "l", "o", " ", "w", "o", "r", "l", "d", "\n">>

\* C7: after every STREAM_CHUNK the raw buffer is no longer than
\* max_full_buffer_size, for every cap the schema accepts (0 included), and
\* it holds the newest characters: the oldest are the ones dropped.
C7_BufferWithinCap ==
  /\ Len(full_buffer) <= max_full_buffer_size
  /\ full_buffer = Last(ov_all, max_full_buffer_size)

\* C8: when the chunks of a session are a reply marker, upper-case as the
\* backend emits it, cut at any position into two consecutive chunks (or
\* left whole), then once they are handled the marker has been detected
\* and the session entered accepting_reply_stream exactly once.
C8_SplitMarkerDetected ==
  \A r \in Streams :
    ( /\ OnlyStream(r)
      /\ ov_script[r] \in SplitScripts \cup WholeScripts
      /\ ov_rq[r] = "streaming"
      /\ ov_pos[r] = Len(ov_script[r]) )
    => (reply_seen /\ ov_enter = 1)

\* C9: once the four chunks "foo ", "**RE", "PLY**\nHello ",
\* "world\n**END**" of a session are handled, the text forwarded to the
\* display is exactly "Hello world\n".
C9_ScenarioCForwarded ==
  ( /\ OnlyStream(1)
    /\ ov_script[1] = ScenarioC
    /\ ov_pos[1] = Len(ScenarioC) )
  => ov_fwd = HelloWorld

\* C10: each stream has a session of its own: the raw buffer of a session
\* holds chunks of no stream but the one that opened it, and a STREAM_END
\* finalizes no session but the one of its own stream.
C10_SessionsIsolated ==
  /\ ov_src \subseteq {ov_owner}
  /\ ov_fin.by = ov_fin.owner

\* the chunk events of stream r among these events, in their order
ChunksOf(q, r) ==
  LET IsChunk(e) == e.rid = r /\ e.kind = "STREAM_CHUNK"
      picked == SelectSeq(q, IsChunk)
  IN  [i \in 1..Len(picked) |-> [seq |-> picked[i].seq, text |-> picked[i].text]]

RecordingsOf(frames) == {frames[i].rec : i \in 1..Len(frames)}

\* C4: while the anti-backchannel filter is enabled, audio shorter than the
\* backchannel threshold is never written to a file, never staged in the
\* MemoryBox and never submitted for dispatch, whichever path ends the
\* recording (the manual send command included).
C4_ShortNeverLeaves ==
  /\ \A i \in 1..Len(rc_persisted) :
       rc_persisted[i].filter => ~IsShort(rc_persisted[i].frames)
  /\ \A i \in 1..Len(rc_staged) :
       rc_staged[i].filter => ~IsShort(rc_staged[i].frames)
  /\ \A i \in 1..Len(rc_submitted) :
       (rc_submitted[i].filter /\ rc_submitted[i].frames # <<>>)
         => ~IsShort(rc_submitted[i].frames)

\* C5: under every interleaving of the capture thread's exit-time finalize,
\* the monitor's silence-timeout finalize, stop_auto_vad's finalize and the
\* manual send, the audio of one recording is written to a file at most
\* once and submitted for dispatch at most once.
C5_FinalizedOnce ==
  \A e \in 1..MaxRecordings :
    /\ Cardinality({i \in 1..Len(rc_persisted) :
                      e \in RecordingsOf(rc_persisted[i].frames)}) <= 1
    /\ Cardinality({i \in 1..Len(rc_submitted) :
                      e \in RecordingsOf(rc_submitted[i].frames)}) <= 1

\* the monitor, at a frame, calls toggle_recording or stop_recording
AutoTransition ==
  /\ At(Mon, "vad_frame")
  /\ rc_stk'[Mon] # <<>>
  /\ Head(rc_stk'[Mon]) \in {"toggle_recording", "stop_recording"}

\* C11: the monitor never starts or stops a recording automatically within
\* 200 ms of its previous automatic start or stop, whatever the capture
\* thread and clear_state do in between.
C11_Debounced == [][AutoTransition => rc_auto # "fresh"]_vars

\* the cancel_recording call of stop_auto_vad (line 296) runs on thread t
CancelOfStop(t) ==
  /\ At(t, "cancel_recording")
  /\ Len(rc_stk[t]) >= 2
  /\ rc_stk[t][2] = "stop_vad_clear"
  /\ rc_stk'[t] = Tail(rc_stk[t])

\* C12: stop_auto_vad called while a recording is in progress finalizes the
\* utterance first, so every frame the recording captured is part of the
\* finalized utterance: the cancel step that follows finds the buffer empty
\* and discards no frame.
C12_NoFrameLost ==
  [][\A t \in rc_inprog : CancelOfStop(t) => audio_data = <<>>]_vars

\* thread t, in _handle_completed_utterance, writes the audio to its file
\* and to the MemoryBox (lines 225-249)
FinalizeStages(t) ==
  /\ At(t, "_handle_completed_utterance")
  /\ rc_stk'[t] # <<>>
  /\ Head(rc_stk'[t]) = "hcu_dispatch"

\* thread t passes the test of line 253
FinalizeGate(t) ==
  /\ At(t, "hcu_dispatch")
  /\ rc_stk'[t] # rc_stk[t]

\* C13: a finalize that does not discard the utterance writes its encoded
\* audio to the MemoryBox and submits nothing by that; at line 253 it pops
\* the bundle and submits it, once, if and only if llm_interaction_allowed
\* is true at that moment; with the gate false it submits nothing and
\* leaves the staged bundle where it is.
C13_GatedSubmit ==
  [][\A t \in RecThreads :
       /\ FinalizeStages(t) =>
            /\ mb_audio' # None
            /\ rc_blob'[mb_audio'] = audio_data
            /\ rc_submitted' = rc_submitted
       /\ FinalizeGate(t) =>
            IF llm_interaction_allowed
            THEN /\ Len(rc_submitted') = Len(rc_submitted) + 1
                 /\ SubSeq(rc_submitted', 1, Len(rc_submitted)) = rc_submitted
                 /\ rc_submitted'[Len(rc_submitted')].frames
                      = BlobFrames(mb_audio)
                 /\ rc_submitted'[Len(rc_submitted')].images = mb_images
                 /\ mb_audio' = None
                 /\ mb_images' = <<>>
            ELSE /\ rc_submitted' = rc_submitted
                 /\ mb_audio' = mb_audio
                 /\ mb_images' = mb_images]_vars

\* a finalize has passed the closed gate: the audio is staged, not submitted
C13_Witness ==
  /\ \E t \in RecThreads : At(t, "hcu_clear")
  /\ ~llm_interaction_allowed
  /\ mb_audio # None
  /\ BlobFrames(mb_audio) = audio_data
  /\ rc_submitted = <<>>

\* a call of toggle_recording on thread t ends (it returns or raises)
ToggleCall(t) ==
  /\ At(t, "toggle_recording")
  /\ rc_stk'[t] # rc_stk[t]

\* the capture threads running
Capturing == {k \in 1..MaxRecordings : rc_stk[CapThread(k)] # <<>>}

\* C15: every call of toggle_recording moves the state one step along
\* idle -> recording -> paused -> recording, so n calls make n transitions;
\* a capture thread is spawned and the buffer reset on idle -> recording
\* and on no other call.
C15_ToggleCycle ==
  [][\A t \in RecThreads : ToggleCall(t) =>
       /\ <<state, state'>> \in {<<"idle", "recording">>,
                                 <<"recording", "paused">>,
                                 <<"paused", "recording">>}
       /\ IF state = "idle"
          THEN /\ audio_data' = <<>>
               /\ \E k \in 1..MaxRecordings :
                    /\ rc_stk[CapThread(k)] = <<>>
                    /\ rc_stk'[CapThread(k)] # <<>>
          ELSE /\ audio_data' = audio_data
               /\ \A k \in 1..MaxRecordings :
                    rc_stk'[CapThread(k)] = rc_stk[CapThread(k)]]_vars

\* a call of stop_recording on thread t returns
StopCall(t) ==
  /\ At(t, "stop_recording")
  /\ rc_stk'[t] # rc_stk[t]

\* C16: stop_recording leaves the state idle and, when the utterance in
\* progress is not empty, the finalize path has run for it by the time the
\* call returns: the utterance was written to its file, or dropped by the
\* filter, and the buffer is empty.
C16_StopFinalizes ==
  [][\A t \in RecThreads : StopCall(t) =>
       /\ state' = "idle"
       /\ audio_data # <<>> =>
            /\ audio_data' = <<>>
            /\ \/ Discards(audio_data)
               \/ /\ rc_persisted' # <<>>
                  /\ rc_persisted'[Len(rc_persisted')].frames
                       = audio_data]_vars

\* a call of AudioRecorder.cancel_recording on thread t returns
CancelCall(t) ==
  /\ At(t, "cancel_recording")
  /\ rc_stk'[t] # rc_stk[t]

\* the entries this step appends to a log
Added(old, new) == {new[i] : i \in (Len(old) + 1)..Len(new)}

\* C17: cancel_recording leaves the state idle, and from then on no audio of
\* the recording it cancelled is written to a file, staged in the MemoryBox
\* or submitted for dispatch, even if the capture thread was reading a
\* frame when the cancel ran.
C17_CancelledNeverLeaves ==
  [][/\ \A t \in RecThreads : CancelCall(t) => state' = "idle"
     /\ \A e \in Added(rc_persisted, rc_persisted')
              \cup Added(rc_staged, rc_staged')
              \cup Added(rc_submitted, rc_submitted') :
          RecordingsOf(e.frames) \cap rc_cancelled = {}]_vars

\* C18: at most one capture thread is alive at any time, and every frame in
\* the buffer was appended by the thread spawned for the recording the
\* frame belongs to: no thread appends to the utterance of a later
\* recording.
C18_OneCaptureThread ==
  /\ Cardinality(Capturing) <= 1
  /\ \A i \in 1..Len(audio_data) : audio_data[i].by = audio_data[i].rec

\* a call of start_auto_vad on thread t returns
StartCall(t) ==
  /\ At(t, "start_auto_vad")
  /\ rc_stk'[t] # rc_stk[t]

\* C19: at most one monitor thread exists at any time.  start_auto_vad
\* called while auto_vad_enabled is set or a monitor is still alive spawns
\* nothing and changes no field; otherwise it clears the shutdown flag,
\* sets auto_vad_enabled and spawns one monitor.
C19_OneMonitor ==
  /\ [](rc_monitors <= 1)
  /\ [][\A t \in RecThreads : StartCall(t) =>
          IF auto_vad_enabled \/ rc_stk[Mon] # <<>>
          THEN /\ rc_monitors' = rc_monitors
               /\ \A u \in RecThreads \ {t} : rc_stk'[u] = rc_stk[u]
               /\ UNCHANGED <<recFlags, audio_data, lock, cmdFlags, vadFlags,
                              _audio_already_saved, rcLogs, rcBox>>
          ELSE /\ rc_monitors' = rc_monitors + 1
               /\ rc_stk'[Mon] # <<>>
               /\ \A u \in RecThreads \ {t, Mon} : rc_stk'[u] = rc_stk[u]
               /\ ~_vad_shutdown_requested'
               /\ auto_vad_enabled']_vars

\* start_auto_vad was called while the flag was down and the monitor of
\* the previous period still alive, and spawned nothing
C19_Witness ==
  /\ rc_refused
  /\ At(Hk, "hk_idle")
  /\ ~auto_vad_enabled
  /\ rc_stk[Mon] # <<>>
  /\ rc_monitors = 1

\* capture thread k fails: the microphone cannot be opened (the thread
\* ends at once) or reading a frame raises (the thread leaves its loop)
CaptureFails(k) ==
  \/ /\ At(CapThread(k), "rec_open")
     /\ rc_stk'[CapThread(k)] = <<>>
  \/ /\ At(CapThread(k), "rec_frame")
     /\ Head(rc_stk'[CapThread(k)]) = "rec_exit"

\* C20: after a capture failure the capture thread is on its way out, the
\* state is idle and is_recording false, so nothing captures until
\* toggle_recording is called again.
C20_FailureGoesIdle ==
  [][\A k \in 1..MaxRecordings : CaptureFails(k) =>
       /\ state' = "idle"
       /\ ~is_recording']_vars

\* this step calls into the MemoryBox (set_audio, pop_bundle, clear) or
\* hands a bundle to the pool (executor.submit)
CrossCall ==
  \/ rc_staged' # rc_staged
  \/ rc_submitted' # rc_submitted
  \/ mb_audio' # mb_audio
  \/ mb_images' # mb_images

\* C21: the recorder lock is never held during a call to the MemoryBox
\* (set_audio, pop_bundle) or to the pool's submit: the step that makes
\* such a call starts and ends with the lock free.
C21_NoCallUnderLock ==
  [][CrossCall => (lock = 0 /\ lock' = 0)]_vars

\* a step of toggle_anti_backchannel: the only hotkey callback that takes
\* one event and leaves the hotkey thread, the command mode and the VAD
\* gate where they were
ToggleABCall ==
  /\ rc_stk[Hk] = <<"hk_idle">>
  /\ rc_events' = rc_events + 1
  /\ rc_stk' = rc_stk
  /\ active' = active
  /\ vad_enabled' = vad_enabled
  /\ rc_epoch' = rc_epoch
  /\ rc_auto' = rc_auto

InStopAutoVad(t) ==
  \E i \in 1..Len(rc_stk[t]) :
    rc_stk[t][i] \in {"stop_auto_vad", "stop_vad_flags", "stop_vad_clear",
                      "stop_vad_join"}

\* C25: stop_auto_vad always returns: Thread.join is never called on the
\* monitor by the monitor itself, whichever thread is inside stop_auto_vad
\* eventually leaves it, and once the shutdown has been requested the
\* monitor thread eventually ends with auto_vad_enabled false.
C25_StopAutoVadEnds ==
  /\ [](rc_join # "self")
  /\ \A t \in {Hk, Mon} : InStopAutoVad(t) ~> ~InStopAutoVad(t)
  /\ _vad_shutdown_requested ~> (rc_stk[Mon] = <<>> /\ ~auto_vad_enabled)

\* after an error of the device the monitor has run stop_auto_vad itself,
\* skipped the join, returned and ended
C25_Witness ==
  /\ rc_join = "skipped"
  /\ _vad_shutdown_requested
  /\ rc_stk[Mon] = <<>>
  /\ ~auto_vad_enabled
  /\ rc_stk[Hk] = <<"hk_idle">>

\* the monitor calls stop_recording
MonitorStops == At(Mon, "stop_recording")' /\ ~At(Mon, "stop_recording")

\* the labels of _handle_completed_utterance
FinalizeLabels == {"_handle_completed_utterance", "hcu_dispatch", "hcu_clear"}

\* what the monitor has before it between its call of stop_recording and
\* its next frame, in the order in which it goes through it
StopSequence ==
  {<<"stop_recording", "vad_finalize">>, <<"vad_finalize">>}
    \cup {<<l, "clear_state", "vad_mark">> : l \in FinalizeLabels}
    \cup {<<"clear_state", "vad_mark">>, <<"vad_mark">>}

\* how far the monitor is in that sequence
StopStage(stk) ==
  IF stk = <<"stop_recording", "vad_finalize">> THEN 1
  ELSE IF stk = <<"vad_finalize">> THEN 2
  ELSE IF Len(stk) = 3 THEN 3
  ELSE IF stk = <<"clear_state", "vad_mark">> THEN 4
  ELSE 5

FrameAppended ==
  /\ Len(audio_data') = Len(audio_data) + 1
  /\ SubSeq(audio_data', 1, Len(audio_data)) = audio_data

\* C30: a frame is appended to audio_data only while state is "recording",
\* never while it is "paused" or "idle", also when the state was changed
\* after the capture thread tested it.
C30_AppendOnlyWhileRecording ==
  [][FrameAppended => state = "recording"]_vars

(***************************************************************************)
(* Claims about the dispatch wrapper, checked under SpecDispatch.          *)
(***************************************************************************)
\* C14: a bundle with neither audio nor images handed to
\* _dispatch_bundle_to_llm_thread is dropped: no request id is generated,
\* no STREAM_START, STREAM_CHUNK or STREAM_END is sent, the backend is not
\* called (no worker enters send_bundle) and the MemoryBox is unchanged.
C14_EmptyIsNoOp ==
  [][ds_empties' # ds_empties =>
       UNCHANGED <<ds_nextRid, sink, ds_out, ds_pc, ds_rid, ds_full,
                   mbVars>>]_vars

\* an empty bundle has been dropped and a bundle with data dispatched
C14_Witness ==
  /\ ds_empties >= 1
  /\ ds_nextRid = 2
  /\ \A r \in Requests : \A i \in 1..Len(sink[r]) : sink[r][i].rid = 1

(***************************************************************************)
(* Claims about returned bundles, checked under SpecMB.                    *)
(***************************************************************************)

\* a step in which get_bundle returns
GetBundleReturns == mb_ret' # mb_ret /\ mb_ret'.op = "get_bundle"

\* C23: get_bundle leaves the staged audio and images as they are, and the
\* bundle a caller was handed by get_bundle or pop_bundle keeps the
\* contents it was returned with, whatever add_image, set_audio, clear or
\* pop_bundle do afterwards.
C23_ReturnedIsSnapshot ==
  /\ [](/\ mb_held.images = mb_held.asReturned.images
        /\ mb_held.audio = mb_held.asReturned.audio)
  /\ [][GetBundleReturns => UNCHANGED <<mb_audio, mb_images>>]_vars

\* a caller holds a bundle with images, and the list it was copied from has
\* since been emptied in place by clear, with no pop_bundle in between
C23_Witness ==
  /\ mb_held.images # <<>>
  /\ mb_held.audio # None
  /\ mb_images = <<>>
  /\ mb_lastMut = "clear"
  /\ mb_popped = {}

(***************************************************************************)
(* Claims about the end of a stream, checked under SpecOverlay.            *)
(***************************************************************************)

\* _handle_stream_end has run to its end, no stream has started since and
\* none is under way: main_text holds the final display
Final ==
  /\ ov_fin.by # 0
  /\ ~ov_fin.raised
  /\ ~stream_active_lock
  /\ \A r \in Streams : ov_rq[r] # "streaming"

\* body is the reply extracted from text s: what stands between the reply
\* marker and the next section marker
IsReplyBody(body, s) ==
  re_reply_marker(s) # 0 /\ body = Strip(dedent(ReplyOnly(s)))

\* C26: the final display follows the fallback policy: with no reply marker
\* found, neither while streaming nor in the raw buffer at the end, it is
\* the stripped and dedented raw buffer when show_raw_on_missing_marker is
\* true and empty when it is false; with the policy false it is always an
\* extracted reply body or empty.
C26_FallbackPolicy ==
  Final =>
    /\ ~reply_seen =>
         main_text.body = IF show_raw_on_missing_marker
                          THEN Strip(dedent(full_buffer)) ELSE <<>>
    /\ ~show_raw_on_missing_marker =>
         \/ main_text.body = <<>>
         \/ IsReplyBody(main_text.body, full_buffer)
         \/ IsReplyBody(main_text.body, ov_all)

(***************************************************************************)
(* Claims about the parse state, checked under SpecOverlay.  A session is  *)
(* what the overlay keeps between one STREAM_START it accepts and the      *)
(* next.                                                                   *)
(***************************************************************************)

\* a STREAM_START is accepted: a new session begins
SessionStarts == stream_active_lock' /\ ~stream_active_lock

\* the chunk handled in this step, <<>> if the step handles none
ChunkHandled ==
  IF \E r \in Streams : Len(ov_applied'[r]) > Len(ov_applied[r])
  THEN LET r == CHOOSE q \in Streams : Len(ov_applied'[q]) > Len(ov_applied[q])
       IN  <<ov_applied'[r][Len(ov_applied'[r])].text>>
  ELSE <<>>

\* the places in s where a reply marker stands, in whatever case
MarkerOccurrences(s) ==
  {i \in 1..Len(s) :
     \E k \in 1..Len(reply_markers_list) :
       StartsAt(LowerStr(s), i, LowerStr(reply_markers_list[k]))}

\* accepting_reply_stream is set only by a chunk that adds a marker
\* occurrence to the text of the session
EntersOnlyAtMarker ==
  (~accepting_reply_stream /\ accepting_reply_stream') =>
    (/\ ChunkHandled # <<>>
     /\ MarkerOccurrences(ov_all') # MarkerOccurrences(ov_all))

\* accepting_reply_stream is reset only by a chunk that matches the section
\* pattern, or when the next session begins
LeavesOnlyAtSection ==
  (accepting_reply_stream /\ ~accepting_reply_stream') =>
    (\/ SessionStarts
     \/ (ChunkHandled # <<>> /\ SectionSearch(ChunkHandled[1]) # 0))

UpperClass == {UpperCase[i] : i \in 1..26} \cup Digits \cup {"-", " "}

\* s has, at the start of a line, two asterisks, a token of UpperClass and
\* two asterisks
HasUpperSection(s) ==
  \E i \in 1..Len(s) :
    /\ LineStart(s, i)
    /\ StartsAt(s, i, Stars)
    /\ LET j == SkipChars(s, i + 2, UpperClass)
       IN  j > i + 2 /\ StartsAt(s, j, Stars)

\* C28: a chunk is forwarded to the display exactly when it is handled
\* while accepting_reply_stream is true and it has no section marker (two
\* asterisks around upper-case letters, digits, blanks or hyphens at a line
\* start): it is then forwarded verbatim and the reply goes on, also when a
\* line begins with a bold token in lower case; chunks handled while
\* scanning, the chunk that completes the reply marker and chunks with a
\* section marker are not forwarded.
C28_ForwardOnlyReply ==
  [][ChunkHandled # <<>> =>
       IF accepting_reply_stream /\ ~HasUpperSection(ChunkHandled[1])
       THEN ov_fwd' = ov_fwd \o ChunkHandled[1] /\ accepting_reply_stream'
       ELSE ov_fwd' = ov_fwd]_vars

(***************************************************************************)
(* Claims about a failing backend, checked under SpecDispatch.             *)
(***************************************************************************)
\* the chunks the backend of request r yielded before it raised: the model
\* names the i-th chunk of request r <<r, i>>
Yielded(r, n) == [i \in 1..n |-> <<r, i>>]

\* what a listener has received when request r that failed after n chunks
\* has returned
FailedStream(r, n) ==
  <<[kind |-> "STREAM_START", rid |-> r, text |-> <<>>]>>
  \o [i \in 1..n |-> [kind |-> "STREAM_CHUNK", rid |-> r, text |-> <<r, i>>]]
  \o <<[kind |-> "STREAM_CHUNK", rid |-> r, text |-> <<"Error">>],
       [kind |-> "STREAM_END", rid |-> r, text |-> <<>>]>>

\* an event once forwarded stays forwarded: the listener's queue only grows
\* at its end
StaysForwarded ==
  \A r \in Requests :
    /\ Len(sink'[r]) >= Len(sink[r])
    /\ SubSeq(sink'[r], 1, Len(sink[r])) = sink[r]

\* after the backend raised, the accumulated response is not touched again
PartialKept ==
  \A w \in Workers :
    ds_pc[w] \in {"except", "finally"} => ds_full'[w] = ds_full[w]

\* C31: when the backend raises an Exception after yielding some chunks,
\* send_bundle returns the concatenation of exactly the chunks received
\* before the failure, the chunks already forwarded stay forwarded, and
\* (with a listener attached) one more STREAM_CHUNK with the error text and
\* the same request id is forwarded before STREAM_END.
C31_PartialPreserved ==
  /\ [](\A r \in Requests :
          (ds_out[r].status = "returned" /\ ds_out[r].backend = "Exception")
            => \E n \in 0..MaxYield :
                 /\ ds_out[r].value = Yielded(r, n)
                 /\ gui_listener => sink[r] = FailedStream(r, n))
  /\ [][StaysForwarded /\ PartialKept]_vars

\* a call whose backend raised after two chunks has returned both, and the
\* listener got the two chunks, the error chunk and STREAM_END
C31_Witness ==
  \E r \in Requests :
    /\ gui_listener
    /\ ds_out[r].status = "returned"
    /\ ds_out[r].backend = "Exception"
    /\ Len(ds_out[r].value) = 2
    /\ Len(sink[r]) = 5
    /\ sink[r][4].text = <<"Error">>

(***************************************************************************)
(* Claims about the two marker tests, checked under SpecOverlay.           *)
(***************************************************************************)
\* _handle_stream_end runs for some stream
StreamEnds ==
  \E r \in Streams : ov_rq[r] # "ended" /\ ov_rq'[r] = "ended"

\* _handle_stream_end runs for some stream and does not raise
StreamEndsNormally == StreamEnds /\ ~ov_fin'.raised

\* C32: whenever the reply marker was detected while streaming (reply_seen
\* is true when the stream ends), the scan of the raw buffer at the end of
\* the stream finds the marker too, and the final display is the body
\* between the marker and the next section marker (or the end of the
\* buffer), never the whole raw buffer.
C32_EndScanFindsMarker ==
  [][(StreamEndsNormally /\ reply_seen) =>
       /\ re_reply_marker(full_buffer) # 0
       /\ IsReplyBody(main_text'.body, full_buffer)]_vars

(***************************************************************************)
(* Claims about the persisted files, checked under SpecRecManual.          *)
(***************************************************************************)
\* the files i and j were written for different utterances
OtherUtterance(i, j) ==
  RecordingsOf(rc_persisted[i].frames)
    \cap RecordingsOf(rc_persisted[j].frames) = {}

\* C33: every finalized, non-discarded utterance has its own persisted
\* file: the file written for a later utterance never has the name of (and
\* so never replaces) the file written for an earlier utterance of the
\* session.
C33_OwnFile ==
  \A i, j \in 1..Len(rc_persisted) :
    (i < j /\ OtherUtterance(i, j))
      => rc_persisted[i].name # rc_persisted[j].name

(***************************************************************************)
(* Claims about the saved flag, checked under SpecRec.                     *)
(***************************************************************************)
\* C34: the assertion of toggle_recording holds in every reachable state:
\* whenever a toggle_recording call finds the recorder idle, the
\* already-saved flag is false, under every interleaving of the call with
\* a finalize and the clear_state that follows it on another thread.
C34_AssertionHolds ==
  [][\A t \in RecThreads :
       (ToggleCall(t) /\ state = "idle") => ~_audio_already_saved]_vars

(***************************************************************************)
(* Claims about the locks, checked under SpecRecFair.                      *)
(***************************************************************************)
\* the labels at which a thread takes the recorder lock at once (rec_frame
\* is left out: there the capture thread first waits for the device)
LockLabels ==
  {"toggle_recording", "stop_recording", "cancel_recording", "clear_state",
   "_handle_completed_utterance", "start_auto_vad", "stop_vad_flags",
   "vad_exit"}

\* thread t waits for the recorder lock, which another thread holds
LockWait(t) ==
  /\ rc_stk[t] # <<>>
  /\ Head(rc_stk[t]) \in LockLabels
  /\ lock # 0

\* the lock order rel has a cycle: a lock taken while held, or two or three
\* locks taken in a ring
Cyclic(rel) ==
  \E a, b, c \in Locks :
    \/ <<a, a>> \in rel
    \/ <<a, b>> \in rel /\ <<b, a>> \in rel
    \/ <<a, b>> \in rel /\ <<b, c>> \in rel /\ <<c, a>> \in rel

\* the thread that holds the recorder lock is inside the with block of
\* _handle_completed_utterance and not about to take the lock again
HolderRuns ==
  lock # 0 =>
    /\ rc_stk[lock] # <<>>
    /\ Head(rc_stk[lock]) \in {"hcu_dispatch", "hcu_clear"}

\* C35: no deadlock: under every interleaving of the hotkey commands, the
\* capture threads and the monitor thread, no thread waits forever for the
\* recorder lock; no lock is taken again by the thread that holds it, and
\* the recorder lock, the MemoryBox lock and the command-mode lock are
\* never taken in a cyclic order.
C35_NoDeadlock ==
  /\ [](HolderRuns /\ ~Cyclic(rc_nested))
  /\ \A t \in RecThreads : LockWait(t) ~> ~LockWait(t)

\* a thread waits for the recorder lock while the thread that holds it is
\* in the MemoryBox, whose lock it took with the recorder lock held
C35_Witness ==
  /\ \E t \in RecThreads : LockWait(t)
  /\ rc_nested = {<<"recorder", "memory_box">>}
  /\ lock # 0
  /\ Head(rc_stk[lock]) = "hcu_dispatch"

(***************************************************************************)
(* Claims about clear_state after a finalize, checked under SpecRec.       *)
(***************************************************************************)
\* thread t runs the clear_state that follows its finalize: a capture
\* thread at lines 176-177, the monitor at lines 373-374
ClearAfterFinalize(t) ==
  /\ t # Hk
  /\ At(t, "clear_state")
  /\ rc_stk'[t] # rc_stk[t]
  /\ Len(rc_stk[t]) = 1 \/ rc_stk[t][2] = "vad_mark"

\* C36: the clear_state that a finishing capture thread or the monitor runs
\* after a finalize resets only the recording it belongs to: a newer
\* recording, started by toggle_recording in the meantime (the state is no
\* longer idle), is not set back to idle and keeps its buffered frames.
C36_ClearOwnRecording ==
  [][\A t \in RecThreads :
       (ClearAfterFinalize(t) /\ state # "idle")
         => UNCHANGED <<state, is_recording, audio_data>>]_vars

(***************************************************************************)
(* Claims about the recorder's flags, checked under SpecRec.               *)
(***************************************************************************)
\* C37: in every reachable state of the recorder, is_recording is true
\* exactly when the state is not idle (recording or paused).
C37_RecordingIffNotIdle == is_recording <=> state # "idle"

(***************************************************************************)
(* Claims about the end of the reply, checked under SpecOverlay.           *)
(***************************************************************************)
\* the session has entered the reply and is no longer in it: it left at a
\* section marker (C27)
LeftReply == ov_enter >= 1 /\ ~accepting_reply_stream

\* C38: once a session has left the reply because of a section marker it
\* never enters it again before the next session begins, even when a later
\* chunk contains a reply marker, and no chunk after that section marker
\* is forwarded to the display.
C38_NoReentry ==
  [][(LeftReply /\ ~SessionStarts) =>
       /\ ~accepting_reply_stream'
       /\ ov_fwd' = ov_fwd]_vars

\* a second reply marker and a chunk after it have been handled after the
\* session left the reply: it did not enter again and forwarded only what
\* came before the section marker
C38_Witness ==
  /\ LeftReply
  /\ ov_enter = 1
  /\ stream_active_lock
  /\ Cardinality(MarkerOccurrences(ov_all)) = 2
  /\ ov_all[Len(ov_all)] = "c"
  /\ ov_fwd = <<"a", "\n">>

(***************************************************************************)
(* Claims about the stream-active flag, checked under SpecOverlay.         *)
(***************************************************************************)
\* _handle_stream_start runs for some stream
StreamStarts ==
  \E r \in Streams : ov_rq[r] = "new" /\ ov_rq'[r] = "streaming"

\* C39: after the STREAM_END of the active stream has been handled, also
\* when the handler raises, the stream-active flag is released and the
\* typing indicator is off; nothing but a STREAM_START sets the flag again,
\* so the next STREAM_START is accepted and begins with an empty raw
\* buffer, an empty trailing window, reply_seen false and the reply not
\* entered.
C39_EndReleases ==
  /\ [][StreamEnds => (~stream_active_lock' /\ ~is_typing')]_vars
  /\ [][(~stream_active_lock /\ stream_active_lock') => StreamStarts]_vars
  /\ [][(StreamStarts /\ ~stream_active_lock) =>
          /\ stream_active_lock'
          /\ full_buffer' = <<>>
          /\ last_n_chars_buffer' = <<>>
          /\ ~reply_seen'
          /\ ~accepting_reply_stream']_vars

\* the handler of stream 1's STREAM_END raised after chunks of stream 1 had
\* been handled, and the STREAM_START of stream 2 was accepted after it
C39_Witness ==
  /\ ov_fin.raised
  /\ ov_fin.by = 1
  /\ ov_fin.owner = 1
  /\ ov_applied[1] # <<>>
  /\ ov_owner = 2
  /\ stream_active_lock
  /\ full_buffer = <<>>
  /\ ~reply_seen

(***************************************************************************)
(* Claims about the Auto-VAD flags, checked under SpecRec.                 *)
(***************************************************************************)
\* the hotkey thread is inside toggle_vad: in start_auto_vad or in
\* stop_auto_vad, which toggle_vad calls last
InToggleVad ==
  \/ InStopAutoVad(Hk)
  \/ \E i \in 1..Len(rc_stk[Hk]) : rc_stk[Hk][i] = "start_auto_vad"

\* C40: whenever no toggle_vad and no stop_auto_vad call is in progress,
\* vad_enabled, auto_vad_enabled and the presence of a classifier instance
\* agree: Auto-VAD is listening exactly when vad_enabled is true, also
\* after the monitor stopped itself on an error of the listening loop and
\* after a toggle made while the previous monitor thread was still alive.
C40_VadFlagsAgree ==
  (~InToggleVad /\ ~InStopAutoVad(Mon)) =>
    /\ vad_enabled <=> auto_vad_enabled
    /\ vad_enabled <=> vad = "Vad"

====
